---- MODULE Spec2Model ----
(***************************************************************************)
(* Gesture-to-camera-control pipeline of the solar-system viewer:          *)
(*   GestureStateMachine, GestureEngine        (hand-tracking engine)      *)
(*   GestureRecognizer                         (finger-gesture classifier) *)
(*   HandGestureControlsV2                     (camera mapper)             *)
(*                                                                         *)
(* Numbers are fixed point.  Times (performance.now(), dt of the state     *)
(* machine, ingest timestamps) are integer milliseconds.  The pinch        *)
(* strength handed to the state machine is in hundredths.                  *)
(***************************************************************************)
EXTENDS Integers, Sequences, FiniteSets, TLC

VARIABLES
    voice,           \* VoiceNavigationController: enabled, listening, mediaStream
                     \* (whether it is set), recorder (0 for null, else the number
                     \* of the MediaRecorder), stopTimer (whether the timer of
                     \* armAutoStop is pending)
    recorderState,   \* MediaRecorder.state of every recorder: "none" before it is
                     \* constructed, then "recording" or "inactive"
    awaitingStream,  \* the startRecording calls suspended in await getUserMedia
    stopQueued,      \* the recorders whose stop event is dispatched, not yet handled
    transcribing,    \* the recordings whose requestTranscription is in flight
    intentTimers,    \* for every recording the target of the pending
                     \* setTimeout(emit voiceCommand, 25), "none" without one
    commandLog,      \* for every recording the targets of the voiceCommand events
                     \* emitted for it, in order
    focus,           \* options.focus
    focusChanged,    \* for every recording the focusChanged events of its commands
    ingestReturned,  \* whether the last ingest returned to its caller (did not throw)
    busListeners,    \* EventBus.listeners: for every event its listeners in the
                     \* order of the Set, <<>> for an event without an entry
    busLast,         \* the last call on the bus: on, off or emit, its event, the
                     \* listeners of the event as emit began and the listeners
                     \* emit called, in the order of the calls
    target,          \* controls.target, the point the camera orbits (hundredths)
    rawLog,          \* the raw classifications of the last frames with a hand, one
                     \* more than the history holds, oldest first
    pinchHistory,    \* GestureRecognizer: the last raw pinch strengths (hundredths)
    lastPinchState,  \* the latched pinch state
    handScale,       \* number | null (thousandths of the image width)
    pinchCall,       \* the last calculatePinchStrength(): whether the hand had the
                     \* four landmarks, the median, the latch before, the value
                     \* returned (hundredths)
    calExt,          \* the CalibrationData object a caller holds: got from
                     \* getCalibration() or passed to setCalibration(); its fields
                     \* and whether it is the very object the engine keeps
    twin,            \* a second engine with its recognizer, given the same ingests
                     \* but for the hands after the first: its fields, whether
                     \* its last ingest emitted the toggle, whether the frames
                     \* of the last ingest differed
    slideTrack,      \* lastIndexTipX (1e-5 of the image width) and lastTimestampMs
                     \* (microseconds) of an engine fed one_finger frames
    slideSnap,       \* mode and yaw of the snapshot of the last such ingest
    slideCalls,      \* the <<x, t>> of these ingests, oldest first
    now,             \* performance.now(), ms
    \* ---- GestureStateMachine
    currentMode,     \* 'Idle' | 'Zoom' | 'Orbit'
    modeTimer,       \* ms accumulated by update()
    lastTransition,  \* performance.now() of the last committed transition
    \* ---- observation of the GestureStateMachine calls (history)
    smOp,            \* the last operation: "none" | "update" | "reset"
    smBefore,        \* currentMode before the last update()
    candMode,        \* the candidate mode of the inputs of the last update()
    candSpan,        \* dt summed over the trailing update() calls with that candidate
    lastCommitAt,    \* performance.now() of the last transition update() committed, -1: none
    resetSince,      \* a reset() happened after that transition
    smGap,           \* now - lastCommitAt as the last update() was entered, -1: none
    smResetBetween,  \* resetSince as the last update() was entered
    smArg,           \* pinch and palmActive of the last update()
    diffSpan,        \* dt summed over the trailing update() calls, since the last
                     \* commit or reset(), whose candidate differed from the mode
                     \* they found
    \* ---- GestureRecognizer
    gestureHistory,     \* FingerGesture[], at most gestureHistorySize entries
    lastStableGesture,  \* FingerGesture
    \* ---- observation of the recognizeFingerGestures calls (history)
    recResult,       \* the FingerGestureState the last call returned
    recStableBefore, \* lastStableGesture before the last call
    \* ---- GestureEngine (its recognizer and state machine are the fields above)
    lastSnapshot,       \* GestureSnapshot
    lastFingerGesture,  \* FingerGestureState
    lastIndexTipX,      \* number | null
    lastTimestampMs,    \* number | null
    lastVoiceToggleAt,  \* ms
    \* ---- observation of the GestureEngine calls (history)
    toggles,         \* the ingest timestamps at which voiceListenToggle was emitted
    engEmitted,      \* the last ingest emitted voiceListenToggle
    ingestHands,     \* landmarks.length of the last two ingests, oldest first
    runToggles,      \* toggles emitted in the current run of ingests reporting two_fingers
    listenerSaw,     \* what read() returned to a listener of voiceListenToggle
                     \* called from the emit of the last ingest: <<snapshot>>, or <<>>
    engOp,           \* the last operation on the engine: "none" | "ingest" | "read" | "calibrate"
    held,            \* the snapshot object a consumer got from read(): isSet (it got
                     \* one), obj (the fields of that object now), atRead (its fields
                     \* as read() returned it), isCurrent (it is this.lastSnapshot)
    \* ---- HandGestureControlsV2
    isEnabled,
    zoomGain, yawGain, pitchGain,   \* tenths
    lastMouseActivity,              \* performance.now() of the last pointer event
    \* ---- the OrbitControls object it drives: the camera's offset from the
    \* target in spherical coordinates, and the distance limits
    camera,          \* [radius (hundredths), theta, phi (millionths of a radian)]
    minDistance, maxDistance,       \* hundredths
    \* ---- observation of the HandGestureControlsV2 calls (history)
    applyArg,        \* the arguments of the last apply(): [snapshot, dt], mode "none": no call
    applyBefore,     \* the camera before the last apply()
    applyEnabled,    \* isEnabled as it was entered
    applySincePointer,  \* ms since the last pointer event as it was entered, -1: none
    applyUpdated,    \* it called controls.update()
    lastPointerAt,   \* performance.now() of the last pointer event, -1: none
    applyCount,      \* apply() calls that were accepted
    applyZoomed,     \* the distance applyZoom set in the last apply(), -1: it set none
    applyAfterStop,  \* the last apply() came after the landmark source had stopped
    \* ---- GestureFilter: one OneEuroFilter per channel
    filters,         \* channel -> [x_prev, dx_prev, t_prev, initialized]
    \* ---- observation of the filter calls (history)
    fltCall,         \* the last filterPinch / filterOrientation call: the channels it
                     \* filtered (chs), its inputs (x, t), what it returned (out), the
                     \* filters of these channels before and after it, and
                     \* resetFresh, calibFresh among chs as it was entered
    resetFresh,      \* channels whose values a reset() cleared and no call filtered since
    calibFresh,      \* channels no call filtered since calibrateNeutral() returned true
    \* ---- GestureEngine, calibration
    calibration,     \* CalibrationData
    previousValues,  \* null
    \* ---- observation of the calibrateNeutral calls (history)
    calibCall,       \* the last call: hands (landmarks.length, -1: no call), result,
                     \* unchanged (calibration, filters, state machine and snapshot
                     \* are after it as before it), and the state machine (sm) and
                     \* the initialized filters (filtering) after it
    \* ---- the landmark source (HandTracker)
    streamStopped    \* it delivers no further frames

smVars == <<currentMode, modeTimer, lastTransition>>
smHist == <<smOp, smBefore, candMode, candSpan, lastCommitAt, resetSince, smGap, smArg,
           diffSpan,
            smResetBetween>>
recVars == <<gestureHistory, lastStableGesture>>
recHist == <<recResult, recStableBefore, rawLog>>
engVars == <<lastSnapshot, lastFingerGesture, lastIndexTipX, lastTimestampMs,
             lastVoiceToggleAt>>
engHist == <<toggles, engEmitted, ingestHands, runToggles, listenerSaw, engOp, held,
            ingestReturned>>
mapVars == <<isEnabled, zoomGain, yawGain, pitchGain, lastMouseActivity>>
camVars == <<camera, minDistance, maxDistance, target>>
mapHist == <<applyArg, applyBefore, applyEnabled, applySincePointer, applyUpdated, applyZoomed,
            applyAfterStop,
             lastPointerAt, applyCount>>
fltVars == <<filters>>
fltHist == <<fltCall, resetFresh, calibFresh>>
calVars == <<calibration, previousValues>>
calHist == <<calibCall>>
sldVars == <<slideTrack, slideSnap, slideCalls>>
pinVars == <<pinchHistory, lastPinchState, handScale, pinchCall>>
busVars == <<busListeners, busLast>>
voiceVars == <<voice, recorderState, awaitingStream, stopQueued, transcribing, intentTimers,
               commandLog, focus, focusChanged>>
moreVars == <<sldVars, pinVars, voiceVars>>
twinVars == <<twin>>
calExtVars == <<calExt>>
vars == <<now, moreVars, busVars, twinVars, calExtVars, streamStopped, fltVars, fltHist, calVars, calHist, smVars, smHist, recVars, recHist, engVars, engHist, mapVars, camVars,
          mapHist>>

\* what the calls on one object leave alone
notSM == <<moreVars, busVars, twinVars, calExtVars, streamStopped, fltVars, fltHist, calVars, calHist, recVars, recHist, engVars, engHist, mapVars, camVars, mapHist>>
notRec == <<moreVars, busVars, twinVars, calExtVars, streamStopped, fltVars, fltHist, calVars, calHist, smVars, smHist, engVars, engHist, mapVars, camVars, mapHist>>
notIngest == <<moreVars, calExtVars, streamStopped, fltVars, fltHist, calVars, calHist, smVars, smHist, mapVars,
              camVars, mapHist>>
notEng == <<twinVars, busVars, notIngest>>
notMap == <<moreVars, busVars, twinVars, calExtVars, streamStopped, fltVars, fltHist, calVars, calHist, smVars, smHist, recVars, recHist, engVars, engHist>>

Min(a, b) == IF a < b THEN a ELSE b
Max(a, b) == IF a > b THEN a ELSE b
Abs(x) == IF x < 0 THEN -x ELSE x

(***************************************************************************)
(* Bounds of the model.                                                    *)
(***************************************************************************)
MaxNow == 300        \* performance.now() runs up to here
MaxTimer == 200      \* modeTimer is followed up to here
MaxIngest == 4       \* frames with a hand in one session of the engine
MaxMapNow == 600     \* performance.now() runs up to here for the camera mapper
MaxApply == 2        \* apply() calls that move the camera
MaxCalIngest == 1    \* frames with a hand in a session with calibration

Modes == {"Idle", "Zoom", "Orbit"}

(***************************************************************************)
(* GestureStateMachine                                                     *)
(***************************************************************************)
ENTER_DELAY == 80
EXIT_DELAY == 120
MIN_MODE_DURATION == 100

\* pinch > 0.4, in hundredths
PINCH_ZOOM_THRESHOLD == 40

determineModeOrbitFirst(pinch, palmActive) ==
    IF palmActive THEN "Orbit"
    ELSE IF pinch > PINCH_ZOOM_THRESHOLD THEN "Zoom"
    ELSE "Idle"
determineMode(pinch, palmActive) ==
    IF pinch > PINCH_ZOOM_THRESHOLD THEN "Zoom"
    ELSE IF palmActive THEN "Orbit"
    ELSE "Idle"

requiredDelay(mode) == IF mode = "Idle" THEN ENTER_DELAY ELSE EXIT_DELAY

\* the guard "Prevent rapid mode switching" of update()
InCooldownNever(n, lt) == FALSE
InCooldown(n, lt) == n - lt < MIN_MODE_DURATION

\* update(pinch, palmActive, dt) at performance.now() = n on the fields sm:
\* the fields after the call (the call returns currentMode of the result)
smUpdate(sm, pinch, palmActive, dt, n) ==
    LET timer == sm.modeTimer + dt
        newMode == determineMode(pinch, palmActive)
    IN  IF InCooldown(n, sm.lastTransition)
        THEN [sm EXCEPT !.modeTimer = timer]
        ELSE IF newMode # sm.currentMode
        THEN IF timer >= requiredDelay(sm.currentMode)
             THEN [currentMode |-> newMode, modeTimer |-> 0, lastTransition |-> n]
             ELSE [sm EXCEPT !.modeTimer = timer]
        ELSE [sm EXCEPT !.modeTimer = 0]

smFields == [currentMode |-> currentMode, modeTimer |-> modeTimer,
             lastTransition |-> lastTransition]

\* inputs of update()
PinchInputs == {10, 40, 90}
DtInputs == {40, 80, 120}
TimeSteps == {40, 100}

\* the history saturates at the longest delay
Saturate(x) == Min(x, EXIT_DELAY)

SMInit ==
    /\ currentMode = "Idle"
    /\ modeTimer = 0
    /\ lastTransition = 0
    /\ smOp = "none"
    /\ smBefore = "Idle"
    /\ candMode = "none"
    /\ candSpan = 0
    /\ lastCommitAt = -1
    /\ resetSince = FALSE
    /\ smGap = -1
    /\ smResetBetween = FALSE
    /\ smArg = [pinch |-> 0, palmActive |-> FALSE]
    /\ diffSpan = 0

Update(pinch, palmActive, dt) ==
    LET after == smUpdate(smFields, pinch, palmActive, dt, now)
        cand == determineMode(pinch, palmActive)
        committed == after.currentMode # currentMode
    IN  /\ modeTimer + dt <= MaxTimer
        /\ currentMode' = after.currentMode
        /\ modeTimer' = after.modeTimer
        /\ lastTransition' = after.lastTransition
        /\ smOp' = "update"
        /\ smBefore' = currentMode
        /\ candMode' = cand
        /\ candSpan' = IF cand = candMode THEN Saturate(candSpan + dt) ELSE Saturate(dt)
        /\ smGap' = IF lastCommitAt = -1 THEN -1 ELSE now - lastCommitAt
        /\ smResetBetween' = resetSince
        /\ smArg' = [pinch |-> pinch, palmActive |-> palmActive]
        /\ diffSpan' = IF cand = currentMode THEN 0
                       ELSE IF smOp = "update" /\ currentMode # smBefore
                       THEN Saturate(dt)
                       ELSE Saturate(diffSpan + dt)
        /\ lastCommitAt' = IF committed THEN now ELSE lastCommitAt
        /\ resetSince' = IF committed THEN FALSE ELSE resetSince
        /\ UNCHANGED <<now, notSM>>

\* reset() on the fields sm: the fields after the call
smReset(sm) == [currentMode |-> "Idle", modeTimer |-> 0, lastTransition |-> 0]

\* what a reset() does to the observation of the state machine
SMResetSeen ==
    /\ smOp' = "reset"
    /\ resetSince' = (lastCommitAt # -1)
    /\ candMode' = "none"
    /\ candSpan' = 0
    /\ diffSpan' = 0
    /\ UNCHANGED <<smBefore, lastCommitAt, smGap, smResetBetween, smArg>>

Reset ==
    /\ currentMode' = smReset(smFields).currentMode
    /\ modeTimer' = smReset(smFields).modeTimer
    /\ lastTransition' = smReset(smFields).lastTransition
    /\ SMResetSeen
    /\ UNCHANGED <<now, notSM>>

\* time passes between calls
Tick(d) ==
    /\ now + d <= MaxNow
    /\ now' = now + d
    /\ UNCHANGED <<smVars, smHist, notSM>>

UpdateStep == \E p \in PinchInputs, a \in BOOLEAN, dt \in DtInputs : Update(p, a, dt)
TickStep == \E d \in TimeSteps : Tick(d)


(***************************************************************************)
(* GestureRecognizer: finger gestures                                      *)
(*                                                                         *)
(* A frame (landmarks) is a sequence of hands.  A hand is described by the *)
(* number of fingers countExtendedFingers finds extended in its 21         *)
(* landmarks and by the x coordinate of its index fingertip (landmark 8,   *)
(* in hundredths of the image width).                                      *)
(***************************************************************************)
gestureHistorySize == 8

FingerGestures == {"open_palm", "closed_fist", "one_finger", "two_fingers", "unknown"}

Hand(fingers, tipX) == [fingers |-> fingers, tipX |-> tipX]

countExtendedFingers(hand) == hand.fingers

classifyGestureFourIsPalm(fingerCount) ==
    CASE fingerCount = 0 -> "closed_fist"
      [] fingerCount = 1 -> "one_finger"
      [] fingerCount = 2 -> "two_fingers"
      [] fingerCount >= 4 -> "open_palm"
      [] OTHER -> "unknown"
classifyGesture(fingerCount) ==
    CASE fingerCount = 0 -> "closed_fist"
      [] fingerCount = 1 -> "one_finger"
      [] fingerCount = 2 -> "two_fingers"
      [] fingerCount = 5 -> "open_palm"
      [] OTHER -> "unknown"

\* gestureFreq[g]
Freq(history, g) == Cardinality({i \in 1..Len(history) : history[i] = g})

\* Object.entries(gestureFreq).sort(([,a],[,b]) => b - a)[0][0]: the keys are in
\* the order of their first occurrence and the sort is stable, so of the most
\* frequent gestures the one that occurs first in the history comes first
MostCommon(history) ==
    IF Len(history) = 0 THEN "unknown"
    ELSE LET gestureFreq == [g \in FingerGestures |-> Freq(history, g)]
             top == CHOOSE n \in 1..Len(history) :
                        /\ \E g \in FingerGestures : gestureFreq[g] = n
                        /\ \A g \in FingerGestures : gestureFreq[g] <= n
             first == CHOOSE i \in 1..Len(history) :
                        /\ gestureFreq[history[i]] = top
                        /\ \A j \in 1..(i - 1) : gestureFreq[history[j]] # top
         IN  history[first]

\* a confidence is the fraction num / den
Conf(num, den) == [num |-> num, den |-> den]

\* confidence > 0.6
IsStableAbove70(c) == 10 * c.num > 7 * c.den
IsStable(c) == 10 * c.num > 6 * c.den

\* gestureHistory.push(gesture); if (length > gestureHistorySize) shift()
PushKeepsOldest(history, gesture) ==
    IF Len(history) >= gestureHistorySize THEN history ELSE Append(history, gesture)
Push(history, gesture) ==
    LET pushed == Append(history, gesture)
    IN  IF Len(pushed) > gestureHistorySize THEN Tail(pushed) ELSE pushed

NoHandState == [gesture |-> "unknown", fingerCount |-> 0, confidence |-> Conf(0, 1),
                isHandVisible |-> FALSE]

\* recognizeFingerGestures(landmarks) on the fields rec: the fields after the
\* call and the FingerGestureState it returns
\* const primaryHand = landmarks[0]
primaryHandIsLast(landmarks) == landmarks[Len(landmarks)]
primaryHand(landmarks) == landmarks[1]

\* the return of a call without hands, on the fields rec
noHandResultForgets(rec) ==
    [rec |-> [gestureHistory |-> <<>>, lastStableGesture |-> "unknown"],
     out |-> NoHandState]
noHandResult(rec) == [rec |-> rec, out |-> NoHandState]

\* the last n entries of seq
LastN(seq, n) == SubSeq(seq, Max(1, Len(seq) - n + 1), Len(seq))

\* what a call with the frame landmarks adds to the log of raw classifications
RawLogged(log, landmarks) ==
    IF Len(landmarks) = 0 THEN log
    ELSE LastN(Append(log, classifyGesture(countExtendedFingers(primaryHand(landmarks)))),
               gestureHistorySize + 1)

recognizeFingerGestures(rec, landmarks) ==
    IF Len(landmarks) = 0
    THEN noHandResult(rec)
    ELSE LET fingerCount == countExtendedFingers(primaryHand(landmarks))
             gesture == classifyGesture(fingerCount)
             history == Push(rec.gestureHistory, gesture)
             stableGesture == MostCommon(history)
             confidence == Conf(Freq(history, stableGesture), Len(history))
             stable == IF IsStable(confidence) THEN stableGesture
                       ELSE rec.lastStableGesture
         IN  [rec |-> [gestureHistory |-> history, lastStableGesture |-> stable],
              out |-> [gesture |-> stable, fingerCount |-> fingerCount,
                       confidence |-> confidence, isHandVisible |-> TRUE]]

recFields == [gestureHistory |-> gestureHistory, lastStableGesture |-> lastStableGesture]

\* null
NULL == -1

(***************************************************************************)
(* EventBus                                                                *)
(*                                                                         *)
(* A listener is a number; what it does when it is called is fixed:        *)
(* listener 1 returns, 2 throws, 3 takes listener 4 off the event it is    *)
(* called for, 4 puts listener 1 on it.                                    *)
(***************************************************************************)
BusEvents == {"voiceListenToggle", "voiceCommand"}
BusListenersOf(event) == IF event = "voiceListenToggle" THEN 1..4 ELSE 1..2

\* try { body } catch (error) { ... }: what is left of the outcome of body
tryCatchRethrows(outcome) == outcome
tryCatch(outcome) == "returned"

\* set.add(listener) and set.delete(listener) on the listeners of event
busOn(ls, event, listener) ==
    IF \E i \in 1..Len(ls[event]) : ls[event][i] = listener THEN ls
    ELSE [ls EXCEPT ![event] = Append(@, listener)]
busOff(ls, event, listener) ==
    [ls EXCEPT ![event] = SelectSeq(@, LAMBDA l : l # listener)]

\* listener(payload) for the event: the listeners after it and how it ended
listenerRuns(ls, event, listener) ==
    CASE listener = 2 -> [listeners |-> ls, outcome |-> "threw"]
      [] listener = 3 -> [listeners |-> busOff(ls, event, 4), outcome |-> "returned"]
      [] listener = 4 -> [listeners |-> busOn(ls, event, 1), outcome |-> "returned"]
      [] OTHER -> [listeners |-> ls, outcome |-> "returned"]

\* the loop of emit over Array.from(set.values()), todo the part of the array
\* still to come
RECURSIVE busDispatch(_, _, _, _)
busDispatch(todo, ls, event, called) ==
    IF todo = <<>>
    THEN [listeners |-> ls, called |-> called, outcome |-> "returned"]
    ELSE LET ran == listenerRuns(ls, event, Head(todo))
             done == Append(called, Head(todo))
         IN  IF tryCatch(ran.outcome) = "threw"
             THEN [listeners |-> ran.listeners, called |-> done, outcome |-> "threw"]
             ELSE busDispatch(Tail(todo), ran.listeners, event, done)

\* emit(event, payload)
busEmit(ls, event) == busDispatch(ls[event], ls, event, <<>>)

(***************************************************************************)
(* VoiceNavigationController and the page's voiceCommand listener.  A      *)
(* transcript is the sequence of its words; the recorders are numbered in  *)
(* the order of their construction.  The browser has MediaRecorder and     *)
(* getUserMedia.                                                           *)
(***************************************************************************)
MaxRecorders == 3
Recorders == 1..MaxRecorders

\* the bodies of createSolarSystem, a module outside the sources: three of them
planetNames == <<"Sun", "Earth", "Mars">>
COURTESY_WORDS == {"please", "now", "thanks", "thank", "you", "planet", "the", "a", "to",
                   "me", "about", "tell", "would", "could", "can", "give"}

\* String.toLowerCase on the words of the model
toLowerCase(word) ==
    CASE word = "Sun" -> "sun" [] word = "Earth" -> "earth" [] word = "Mars" -> "mars"
      [] word = "MARS" -> "mars" [] word = "Open" -> "open" [] word = "Show" -> "show"
      [] word = "Pluto" -> "pluto" [] word = "Hello" -> "hello"
      [] OTHER -> word
lowerWords(words) == [i \in 1..Len(words) |-> toLowerCase(words[i])]

\* prepareAliases: the name in lower case, "the <name>", and the extra names
aliasesOf(name) ==
    {<<toLowerCase(name)>>, <<"the", toLowerCase(name)>>}
        \cup (IF toLowerCase(name) = "sun" THEN {<<"sol">>, <<"the", "star">>} ELSE {})
        \cup (IF toLowerCase(name) = "earth" THEN {<<"terra">>, <<"the", "world">>} ELSE {})

\* detectOpenPhrase with the one-word verbs of its first pattern: the words
\* after the first verb that has a word after it, <<>> for null
OpenVerbs == {"open", "goto", "show"}
detectOpenPhrase(words) ==
    LET at == {i \in 1..Len(words) : words[i] \in OpenVerbs /\ i < Len(words)}
    IN IF at = {} THEN <<>>
       ELSE LET first == CHOOSE i \in at : \A j \in at : i <= j
            IN SubSeq(words, first + 1, Len(words))

\* cleanCandidate: the words that are not courtesy words, or all of them
cleanCandidate(raw) ==
    LET kept == SelectSeq(raw, LAMBDA word : word \notin COURTESY_WORDS)
    IN IF kept # <<>> THEN kept ELSE raw

includesWords(whole, part) ==
    \E i \in 1..Len(whole) : i + Len(part) - 1 <= Len(whole)
                              /\ SubSeq(whole, i, i + Len(part) - 1) = part
tokenOverlap(reference, candidate) ==
    LET intersection == SelectSeq(reference,
                                  LAMBDA token : \E i \in 1..Len(candidate) : candidate[i] = token)
    IN IF Len(intersection) = 0 THEN 0
       ELSE (200 * Len(intersection)) \div (Len(reference) + Len(candidate))
\* similarity in hundredths; the edit-distance score of two texts that share
\* no word is below the 0.45 of parseIntent for the words of the model
similarity(reference, candidate) ==
    IF reference = <<>> \/ candidate = <<>> THEN 0
    ELSE IF reference = candidate THEN 100
    ELSE IF includesWords(reference, candidate) \/ includesWords(candidate, reference) THEN 85
    ELSE tokenOverlap(reference, candidate)
scoreOf(name, candidate) ==
    CHOOSE best \in {similarity(alias, candidate) : alias \in aliasesOf(name)} :
        \A alias \in aliasesOf(name) : similarity(alias, candidate) <= best
\* resolvePlanet: the first name with the best score
RECURSIVE resolvePlanetFrom(_, _, _)
resolvePlanetFrom(i, candidate, best) ==
    IF i > Len(planetNames) THEN best
    ELSE LET score == scoreOf(planetNames[i], candidate)
         IN resolvePlanetFrom(i + 1, candidate,
                              IF best.name = "none" \/ score > best.score
                              THEN [name |-> planetNames[i], score |-> score] ELSE best)
resolvePlanet(candidate) ==
    IF candidate = <<>> THEN [name |-> "none", score |-> 0]
    ELSE resolvePlanetFrom(1, candidate, [name |-> "none", score |-> 0])

\* parseIntent(transcript, normalized): the target of an "open" intent or "none"
parseIntent(normalized) ==
    IF normalized = <<>> THEN "none"
    ELSE LET openPhrase == detectOpenPhrase(normalized)
         IN IF openPhrase = <<>> THEN "none"
            ELSE LET match == resolvePlanet(cleanCandidate(openPhrase))
                 IN IF match.name # "none" /\ match.score >= 45 THEN match.name ELSE "none"

\* mapServerIntent(si): the target of the mapped intent or "none"
mapServerIntent(si) ==
    IF toLowerCase(si.type) = "open" /\ si.target # "none"
    THEN LET found == {i \in 1..Len(planetNames) :
                           toLowerCase(planetNames[i]) = toLowerCase(si.target)}
         IN IF found = {} THEN "none"
            ELSE planetNames[CHOOSE i \in found : \A j \in found : i <= j]
    ELSE "none"

\* the answers of /api/stt/transcriptions: the status, the transcript and the
\* intent of the server's classification (type "none" without one)
Transcripts == {<<>>, <<"Hello">>, <<"Open", "Mars">>,
                <<"Show", "me", "the", "Earth", "please">>}
ServerIntents == {[type |-> "none", target |-> "none"], [type |-> "open", target |-> "MARS"],
                  [type |-> "open", target |-> "Pluto"], [type |-> "next", target |-> "none"]}
Responses == [ok : BOOLEAN, transcript : Transcripts, intent : ServerIntents]

\* handleError: listening = false, clearAutoStop
handleError(v) == [v EXCEPT !.listening = FALSE, !.stopTimer = FALSE]

\* the fields after startRecording's await: a new recorder that records
startedRecorder(v, recs) ==
    LET id == Cardinality({r \in Recorders : recs[r] # "none"}) + 1
    IN [voice |-> [v EXCEPT !.recorder = id, !.listening = TRUE, !.stopTimer = TRUE],
        recorders |-> [recs EXCEPT ![id] = "recording"]]

\* startRecording up to its first await, and through to the end when the
\* stream is there already
startRecording(v, recs, awaiting) ==
    IF ~v.enabled \/ v.listening
    THEN [voice |-> v, recorders |-> recs, awaiting |-> awaiting]
    ELSE IF ~v.mediaStream
    THEN [voice |-> v, recorders |-> recs, awaiting |-> awaiting + 1]
    ELSE LET started == startedRecorder(v, recs)
         IN [voice |-> started.voice, recorders |-> started.recorders, awaiting |-> awaiting]

\* stopRecording: stops this.recorder when it is not inactive
stopRecording(v, recs, queued) ==
    IF v.recorder = 0 \/ recs[v.recorder] = "inactive"
    THEN [voice |-> v, recorders |-> recs, queued |-> queued]
    ELSE [voice |-> [v EXCEPT !.stopTimer = FALSE],
          recorders |-> [recs EXCEPT ![v.recorder] = "inactive"],
          queued |-> queued \cup {v.recorder}]

\* setEnabled(enabled)
setEnabled(v, recs, queued, enabled) ==
    IF v.enabled = enabled THEN [voice |-> v, recorders |-> recs, queued |-> queued]
    ELSE IF enabled
    THEN [voice |-> [v EXCEPT !.enabled = TRUE], recorders |-> recs, queued |-> queued]
    ELSE LET stopped == stopRecording([v EXCEPT !.enabled = FALSE], recs, queued)
         IN [voice |-> [stopped.voice EXCEPT !.mediaStream = FALSE],
             recorders |-> stopped.recorders, queued |-> stopped.queued]

\* the branch both the gesture listener and the button take
toggleListening(v, recs, awaiting, queued) ==
    IF v.listening
    THEN LET stopped == stopRecording(v, recs, queued)
         IN [voice |-> stopped.voice, recorders |-> stopped.recorders,
             awaiting |-> awaiting, queued |-> stopped.queued]
    ELSE LET started == startRecording(v, recs, awaiting)
         IN [voice |-> started.voice, recorders |-> started.recorders,
             awaiting |-> started.awaiting, queued |-> queued]

\* setFocus(focus) of the page for recording id: [focus, focusChanged]
setFocus(current, changed, id, name) ==
    IF \E i \in 1..Len(planetNames) : planetNames[i] = name
    THEN [focus |-> name, changed |-> [changed EXCEPT ![id] = @ + 1]]
    ELSE [focus |-> current, changed |-> changed]

VoiceInit ==
    /\ voice = [enabled |-> FALSE, listening |-> FALSE, mediaStream |-> FALSE,
                recorder |-> 0, stopTimer |-> FALSE]
    /\ recorderState = [id \in Recorders |-> "none"]
    /\ awaitingStream = 0
    /\ stopQueued = {}
    /\ transcribing = {}
    /\ intentTimers = [id \in Recorders |-> "none"]
    /\ commandLog = [id \in Recorders |-> <<>>]
    /\ focus = planetNames[1]
    /\ focusChanged = [id \in Recorders |-> 0]

CanRecord ==
    Cardinality({id \in Recorders : recorderState[id] # "none"}) + awaitingStream < MaxRecorders

\* the listener of voiceListenToggle
VoiceListenToggle ==
    /\ ~voice.listening => CanRecord
    /\ \E on \in {setEnabled(voice, recorderState, stopQueued, TRUE)} :
       \E r \in {toggleListening(on.voice, on.recorders, awaitingStream, on.queued)} :
           /\ voice' = r.voice
           /\ recorderState' = r.recorders
           /\ awaitingStream' = r.awaiting
           /\ stopQueued' = r.queued
    /\ UNCHANGED <<transcribing, intentTimers, commandLog, focus, focusChanged>>

\* the click listener of the microphone button
ButtonClick ==
    /\ ~voice.listening => CanRecord
    /\ IF ~voice.enabled
       THEN UNCHANGED <<voice, recorderState, awaitingStream, stopQueued>>
       ELSE \E r \in {toggleListening(voice, recorderState, awaitingStream, stopQueued)} :
                /\ voice' = r.voice
                /\ recorderState' = r.recorders
                /\ awaitingStream' = r.awaiting
                /\ stopQueued' = r.queued
    /\ UNCHANGED <<transcribing, intentTimers, commandLog, focus, focusChanged>>

\* the listener of voiceToggle
VoiceToggle(enabled) ==
    /\ \E r \in {setEnabled(voice, recorderState, stopQueued, enabled)} :
           /\ voice' = r.voice
           /\ recorderState' = r.recorders
           /\ stopQueued' = r.queued
    /\ UNCHANGED <<awaitingStream, transcribing, intentTimers, commandLog, focus, focusChanged>>

\* getUserMedia resolves: a suspended startRecording goes on after its await
GetUserMediaResolves ==
    /\ awaitingStream > 0
    /\ \E r \in {startedRecorder([voice EXCEPT !.mediaStream = TRUE], recorderState)} :
           /\ voice' = r.voice
           /\ recorderState' = r.recorders
    /\ awaitingStream' = awaitingStream - 1
    /\ UNCHANGED <<stopQueued, transcribing, intentTimers, commandLog, focus, focusChanged>>

\* getUserMedia rejects: the catch of the caller runs handleError
GetUserMediaRejects ==
    /\ awaitingStream > 0
    /\ voice' = handleError(voice)
    /\ awaitingStream' = awaitingStream - 1
    /\ UNCHANGED <<recorderState, stopQueued, transcribing, intentTimers, commandLog, focus,
                   focusChanged>>

\* the timer of armAutoStop fires
AutoStopFires ==
    /\ voice.stopTimer
    /\ \E r \in {stopRecording([voice EXCEPT !.stopTimer = FALSE], recorderState, stopQueued)} :
           /\ voice' = r.voice
           /\ recorderState' = r.recorders
           /\ stopQueued' = r.queued
    /\ UNCHANGED <<awaitingStream, transcribing, intentTimers, commandLog, focus, focusChanged>>

\* the stop event of a recorder: onRecordingStopped up to its await; blob is
\* whether the recorder delivered data
RecorderStopped(id, blob) ==
    /\ id \in stopQueued
    /\ stopQueued' = stopQueued \ {id}
    /\ voice' = [voice EXCEPT !.listening = FALSE]
    /\ transcribing' = IF blob THEN transcribing \cup {id} ELSE transcribing
    /\ UNCHANGED <<recorderState, awaitingStream, intentTimers, commandLog, focus, focusChanged>>

\* the server answers: the rest of requestTranscription and of
\* onRecordingStopped, with the voiceCommand listener of the page
TranscriptionReturns(id, response) ==
    /\ id \in transcribing
    /\ transcribing' = transcribing \ {id}
    /\ LET mapped == IF response.ok THEN mapServerIntent(response.intent) ELSE "none"
           afterServer == IF mapped # "none" THEN setFocus(focus, focusChanged, id, mapped)
                          ELSE [focus |-> focus, changed |-> focusChanged]
           intent == parseIntent(lowerWords(response.transcript))
       IN /\ commandLog' = IF mapped # "none"
                           THEN [commandLog EXCEPT ![id] = Append(@, mapped)] ELSE commandLog
          /\ focus' = afterServer.focus
          /\ focusChanged' = afterServer.changed
          /\ voice' = IF ~response.ok \/ response.transcript = <<>>
                      THEN handleError(voice) ELSE voice
          /\ intentTimers' = IF response.ok /\ response.transcript # <<>> /\ intent # "none"
                             THEN [intentTimers EXCEPT ![id] = intent] ELSE intentTimers
    /\ UNCHANGED <<recorderState, awaitingStream, stopQueued>>

\* the 25 ms timer of onRecordingStopped emits voiceCommand
IntentTimerFires(id) ==
    /\ intentTimers[id] # "none"
    /\ intentTimers' = [intentTimers EXCEPT ![id] = "none"]
    /\ commandLog' = [commandLog EXCEPT ![id] = Append(@, intentTimers[id])]
    /\ \E r \in {setFocus(focus, focusChanged, id, intentTimers[id])} :
           focus' = r.focus /\ focusChanged' = r.changed
    /\ UNCHANGED <<voice, recorderState, awaitingStream, stopQueued, transcribing>>

BusInit ==
    /\ busListeners = [event \in BusEvents |-> <<>>]
    /\ busLast = [op |-> "none", event |-> "none", atStart |-> <<>>, called |-> <<>>]

BusOn(event, listener) ==
    /\ busListeners' = busOn(busListeners, event, listener)
    /\ busLast' = [op |-> "on", event |-> event, atStart |-> <<>>, called |-> <<>>]

BusOff(event, listener) ==
    /\ busListeners' = busOff(busListeners, event, listener)
    /\ busLast' = [op |-> "off", event |-> event, atStart |-> <<>>, called |-> <<>>]

BusEmit(event) ==
    \E r \in {busEmit(busListeners, event)} :
        /\ busListeners' = r.listeners
        /\ busLast' = [op |-> "emit", event |-> event, atStart |-> busListeners[event],
                       called |-> r.called]

\* A hand as calculatePinchStrength sees it: whether landmarks 0, 4, 5 and 8
\* are there, the wrist to index-MCP distance and the thumb-tip to index-tip
\* distance in the image plane (thousandths)
PinchHand(complete, scale, pinchDistance) ==
    [complete |-> complete, scale |-> scale, pinchDistance |-> pinchDistance]

pinchHistorySize == 5
PINCH_OPEN == 25
PINCH_CLOSED == 70

\* Math.max(0, Math.min(1, (0.8 - pinchDistance / handScale) / 0.6)), hundredths
rawPinchStrength(pinchDistance, scale) ==
    Max(0, Min(100, (100 * (80 * scale - 100 * pinchDistance)) \div (60 * scale)))

\* sortedHistory[Math.floor(sortedHistory.length / 2)]
medianPinch(history) ==
    LET k == Len(history) \div 2
        below(v) == Cardinality({i \in 1..Len(history) : history[i] < v})
        upTo(v) == Cardinality({i \in 1..Len(history) : history[i] <= v})
    IN  CHOOSE v \in {history[i] : i \in 1..Len(history)} : below(v) <= k /\ k < upTo(v)

\* the hysteresis: the latch after a frame of median m
pinchLatchAtHalf(pinched, m) == m > 50
pinchLatch(pinched, m) ==
    IF pinched THEN ~(m < PINCH_OPEN) ELSE m > PINCH_CLOSED

\* calculatePinchStrength(landmarks) on the fields rec: the fields after it,
\* the median it took and the value it returns
calculatePinchStrength(rec, hand) ==
    IF ~hand.complete THEN [rec |-> rec, median |-> -1, out |-> 0]
    ELSE LET scale == IF rec.handScale = NULL THEN hand.scale ELSE rec.handScale
             raw == rawPinchStrength(hand.pinchDistance, scale)
             pushed == Append(rec.pinchHistory, raw)
             history == IF Len(pushed) > pinchHistorySize THEN Tail(pushed) ELSE pushed
             m == medianPinch(history)
             pinched == pinchLatch(rec.lastPinchState, m)
         IN  [rec |-> [pinchHistory |-> history, lastPinchState |-> pinched,
                       handScale |-> scale],
              median |-> m,
              out |-> IF pinched THEN Max(60, m) ELSE Min(40, m)]

PinchInit ==
    /\ pinchHistory = <<>>
    /\ lastPinchState = FALSE
    /\ handScale = NULL
    /\ pinchCall = [called |-> FALSE, complete |-> FALSE, median |-> -1,
                    before |-> FALSE, out |-> 0]

\* the hands of the frames: tips 0.02 to 0.08 apart on a hand of scale 0.1, the
\* same on a hand seen twice as large, and a hand without its landmarks
PinchHands ==
    {PinchHand(TRUE, 100, d) : d \in {20, 35, 38, 50, 65, 68, 80}}
        \cup {PinchHand(TRUE, 200, 70), PinchHand(FALSE, 0, 0)}

CalculatePinchStrength(hand) ==
    /\ \E r \in {calculatePinchStrength(
                    [pinchHistory |-> pinchHistory, lastPinchState |-> lastPinchState,
                     handScale |-> handScale], hand)} :
        /\ pinchHistory' = r.rec.pinchHistory
        /\ lastPinchState' = r.rec.lastPinchState
        /\ handScale' = r.rec.handScale
        /\ pinchCall' = [called |-> TRUE, complete |-> hand.complete,
                         median |-> r.median, before |-> lastPinchState, out |-> r.out]
    /\ UNCHANGED <<now, sldVars, voiceVars, busVars, twinVars, calExtVars, streamStopped, fltVars, fltHist,
                   calVars, calHist, smVars, smHist, recVars, recHist, engVars, engHist,
                   mapVars, camVars, mapHist>>

CalculatePinchStrengthStep == \E hand \in PinchHands : CalculatePinchStrength(hand)

RecInit ==
    /\ PinchInit
    /\ gestureHistory = <<>>
    /\ lastStableGesture = "unknown"
    /\ recResult = NoHandState
    /\ recStableBefore = "unknown"
    /\ rawLog = <<>>

\* the frames the landmark source delivers to the recognizer alone: a closed
\* fist, three fingers (no gesture) or an open palm, and a fist with a second,
\* open hand behind it
RecFrames == {<<Hand(f, 40)>> : f \in {0, 3, 5}} \cup {<<Hand(0, 40), Hand(5, 40)>>}
NoHandFrame == <<>>

Range(seq) == {seq[i] : i \in 1..Len(seq)}

Recognize(landmarks) ==
    \E r \in {recognizeFingerGestures(recFields, landmarks)} :
        /\ gestureHistory' = r.rec.gestureHistory
        /\ lastStableGesture' = r.rec.lastStableGesture
        /\ recResult' = r.out
        /\ recStableBefore' = lastStableGesture
        /\ rawLog' = RawLogged(rawLog, landmarks)
        /\ UNCHANGED <<now, notRec>>

RecognizeHand == \E landmarks \in RecFrames : Recognize(landmarks)
RecognizeNoHand == Recognize(NoHandFrame)


(***************************************************************************)
(* OneEuroFilter and GestureFilter                                         *)
(*                                                                         *)
(* Values are in thousandths, timestamps in ms (thousandths of the seconds *)
(* filter() takes), velocities in thousandths per second, cutoff           *)
(* frequencies in thousandths of a Hz, beta in thousandths.                *)
(***************************************************************************)
Channels == {"pinch", "yaw", "pitch", "roll"}
OrientationChannels == {"yaw", "pitch", "roll"}

\* new OneEuroFilter(1.2, 0.01, 1.0) for pinch, OneEuroFilterVector(3, 0.8, 0.007, 1.0)
FilterParams ==
    [ch \in Channels |->
        IF ch = "pinch" THEN [minCutoff |-> 1200, beta |-> 10, dCutoff |-> 1000]
        ELSE [minCutoff |-> 800, beta |-> 7, dCutoff |-> 1000]]

\* a constructed or reset filter
freshFilter == [x_prev |-> 0, dx_prev |-> 0, t_prev |-> 0, initialized |-> FALSE]

\* 2 * Math.PI, in thousandths
TWO_PI == 6283

\* alpha(dt, cutoff) = 1 / (1 + tau / dt) with tau = 1 / (2 pi cutoff), which is
\* r / (r + 1) for r = 2 pi cutoff dt; as a fraction, r in thousandths
alpha(dt, cutoff) ==
    LET r == (((TWO_PI * cutoff) \div 1000) * dt) \div 1000
    IN  [num |-> r, den |-> r + 1000]

\* lowPass(x, x_prev, alpha) = alpha * x + (1 - alpha) * x_prev
lowPass(x, x_prev, a) == (a.num * x + (a.den - a.num) * x_prev) \div a.den

\* what the first call returns
firstValueSmoothed(x, f) == (x + f.x_prev) \div 2
firstValue(x, f) == x

\* what a call returns whose timestamp does not advance
heldValueIsInput(x, f) == x
heldValue(x, f) == f.x_prev

\* filter(x, t) on the fields f of a OneEuroFilter with parameters p: the
\* fields after the call and the value returned
oneEuroFilter(f, p, x, t) ==
    IF ~f.initialized
    THEN [f |-> [f EXCEPT !.x_prev = x, !.t_prev = t, !.initialized = TRUE],
          out |-> firstValue(x, f)]
    ELSE LET dt == t - f.t_prev
         IN  IF dt <= 0
             THEN [f |-> f, out |-> heldValue(x, f)]
             ELSE LET dx == ((x - f.x_prev) * 1000) \div dt
                      dx_filtered == lowPass(dx, f.dx_prev, alpha(dt, p.dCutoff))
                      cutoff == p.minCutoff + (p.beta * Abs(dx_filtered)) \div 1000
                      x_filtered == lowPass(x, f.x_prev, alpha(dt, cutoff))
                  IN  [f |-> [x_prev |-> x_filtered, dx_prev |-> dx_filtered,
                              t_prev |-> t, initialized |-> TRUE],
                       out |-> x_filtered]

\* OneEuroFilter.reset()
oneEuroReset(f) == freshFilter

\* GestureFilter.reset(): pinchFilter.reset() and orientationFilter.reset()
gestureFilterResetPinchOnly(fs) == [fs EXCEPT !["pinch"] = oneEuroReset(fs["pinch"])]
gestureFilterReset(fs) == [ch \in Channels |-> oneEuroReset(fs[ch])]

NoFilterCall ==
    [chs |-> {}, x |-> [ch \in Channels |-> 0], t |-> 0,
     out |-> [ch \in Channels |-> 0],
     before |-> [ch \in Channels |-> freshFilter],
     after |-> [ch \in Channels |-> freshFilter],
     resetFresh |-> {}, calibFresh |-> {}]

FilterInit ==
    /\ filters = [ch \in Channels |-> freshFilter]
    /\ fltCall = NoFilterCall
    /\ resetFresh = {}
    /\ calibFresh = {}

\* the channels chs filter the values xs at timestamp t
FilterCall(chs, xs, t) ==
    \E r \in {[ch \in chs |-> oneEuroFilter(filters[ch], FilterParams[ch], xs[ch], t)]} :
        /\ filters' = [ch \in Channels |-> IF ch \in chs THEN r[ch].f ELSE filters[ch]]
        /\ fltCall' = [chs |-> chs, x |-> xs, t |-> t,
                       out |-> [ch \in Channels |-> IF ch \in chs THEN r[ch].out ELSE 0],
                       before |-> [ch \in Channels |->
                                      IF ch \in chs THEN filters[ch] ELSE freshFilter],
                       after |-> [ch \in Channels |->
                                      IF ch \in chs THEN r[ch].f ELSE freshFilter],
                       resetFresh |-> resetFresh \cap chs,
                       calibFresh |-> calibFresh \cap chs]
        /\ resetFresh' = resetFresh \ chs
        /\ calibFresh' = calibFresh \ chs

\* filterPinch(pinch, t)
FilterPinch(pinch, t) ==
    /\ FilterCall({"pinch"}, [ch \in Channels |-> IF ch = "pinch" THEN pinch ELSE 0], t)
    /\ UNCHANGED <<now, moreVars, busVars, twinVars, calExtVars, streamStopped, smVars, smHist, recVars, recHist, engVars,
                   engHist, mapVars, camVars, mapHist, calVars, calHist>>

\* filterOrientation(yaw, pitch, roll, t)
FilterOrientation(yaw, pitch, roll, t) ==
    /\ FilterCall(OrientationChannels,
                  [ch \in Channels |->
                      CASE ch = "yaw" -> yaw [] ch = "pitch" -> pitch
                        [] ch = "roll" -> roll [] OTHER -> 0], t)
    /\ UNCHANGED <<now, moreVars, busVars, twinVars, calExtVars, streamStopped, smVars, smHist, recVars, recHist, engVars,
                   engHist, mapVars, camVars, mapHist, calVars, calHist>>

\* what a reset() of the filters fs does to the observation of the channels
FilterResetSeen(fs) ==
    resetFresh' = resetFresh \cup {ch \in Channels : fs[ch].initialized}

\* GestureFilter.reset()
FilterReset ==
    /\ filters' = gestureFilterReset(filters)
    /\ FilterResetSeen(filters)
    /\ UNCHANGED <<now, moreVars, busVars, twinVars, calExtVars, streamStopped, fltCall, calibFresh, smVars, smHist, recVars,
                   recHist, engVars, engHist, mapVars, camVars, mapHist, calVars,
                   calHist>>

\* the values and timestamps handed to the filters
PinchValues == {200, 800}
OrientationValues == {<<100, -300, 0>>, <<500, 200, -100>>}
FilterTimes == {100, 200, 300}

FilterPinchStep == \E x \in PinchValues, t \in FilterTimes : FilterPinch(x, t)
FilterOrientationStep ==
    \E o \in OrientationValues, t \in FilterTimes : FilterOrientation(o[1], o[2], o[3], t)

(***************************************************************************)
(* GestureEngine                                                           *)
(*                                                                         *)
(* pinch is in hundredths, pinchDelta in tenths, yaw in thousandths of a   *)
(* radian per second; null is NULL.                                        *)
(***************************************************************************)

VOICE_TOGGLE_COOLDOWN_MS == 1200

\* Math.PI rad/s, in thousandths
MAX_YAW_RATE == 3142

createIdleSnapshot(t) ==
    [t |-> t, mode |-> "Idle", pinch |-> 0, pinchDelta |-> 0, yaw |-> 0, pitch |-> 0,
     roll |-> 0, hands |-> 0, quality |-> Conf(0, 1)]

\* fingerGesture.confidence > 0.5
IsConfidentFromHalf(c) == 2 * c.num >= c.den
IsConfident(c) == 2 * c.num > c.den

\* tMs - this.lastVoiceToggleAt > this.VOICE_TOGGLE_COOLDOWN_MS
CooldownOverAlways(tMs, last) == TRUE
CooldownOver(tMs, last) == tMs - last > VOICE_TOGGLE_COOLDOWN_MS

Clamp(x, lo, hi) == Max(lo, Min(hi, x))

\* yaw of the one_finger case: vx = (currentX - lastIndexTipX) / dt with
\* dt = Math.max(0.001, (tMs - lastTimestampMs) / 1000) seconds, gain 2.0
slideYawUnclamped(currentX, lastX, tMs, lastMs) ==
    (20000 * (currentX - lastX)) \div Max(1, tMs - lastMs)
\* dt = Math.max(0.001, (tMs - lastTimestampMs) / 1000), in the unit of t, of
\* which the floor of one millisecond holds floor
slideDtTenfold(floor, t, last) == Max(10 * floor, t - last)
slideDt(floor, t, last) == Max(floor, t - last)

slideYaw(currentX, lastX, tMs, lastMs) ==
    LET dtMs == slideDt(1, tMs, lastMs)
        yaw == (20000 * (currentX - lastX)) \div dtMs
    IN  Clamp(yaw, -MAX_YAW_RATE, MAX_YAW_RATE)

\* The one_finger case on its own, at the resolution of the timestamps the
\* page passes to ingest (performance.now(), fractions of a millisecond):
\* x in 1e-5 of the image width, t in microseconds, yaw in mrad/s.
SLIDE_DT_FLOOR == 1000

\* case 'one_finger' of processFingerGestures for index-tip x currentX at time
\* t on the tracker track: the tracker after it and the snapshot's mode, yaw
oneFingerSlide(track, currentX, t) ==
    LET tracked == track.lastIndexTipX # NULL /\ track.lastTimestampMs # NULL
        dt == slideDt(SLIDE_DT_FLOOR, t, track.lastTimestampMs)
        yaw == IF tracked
               THEN Clamp((20000 * (currentX - track.lastIndexTipX)) \div dt,
                          -MAX_YAW_RATE, MAX_YAW_RATE)
               ELSE 0
    IN  [track |-> [lastIndexTipX |-> currentX, lastTimestampMs |-> t],
         snap |-> [mode |-> "Orbit", yaw |-> yaw]]

MaxSlide == 2
SlideXs == {40000, 40100, 45000}
SlideTimes == {0, 500, 1000, 5000, 100000}

SlideInit ==
    /\ slideTrack = [lastIndexTipX |-> NULL, lastTimestampMs |-> NULL]
    /\ slideSnap = [mode |-> "Idle", yaw |-> 0]
    /\ slideCalls = <<>>

\* ingest of a frame reported as one_finger with confidence above 0.5
SlideIngest(currentX, t) ==
    /\ Len(slideCalls) < MaxSlide
    /\ \E r \in {oneFingerSlide(slideTrack, currentX, t)} :
        /\ slideTrack' = r.track
        /\ slideSnap' = r.snap
    /\ slideCalls' = Append(slideCalls, <<currentX, t>>)
    /\ UNCHANGED <<now, pinVars, voiceVars, busVars, twinVars, calExtVars, streamStopped, fltVars, fltHist, calVars, calHist, smVars,
                   smHist, recVars, recHist, engVars, engHist, mapVars, camVars, mapHist>>

SlideIngestStep == \E x \in SlideXs, t \in SlideTimes : SlideIngest(x, t)

\* processFingerGestures(landmarks, tMs) on the fields eng, after ingest stored
\* the recognizer's result in eng.lastFingerGesture: the fields after the call
\* and whether voiceListenToggle was emitted
processFingerGestures(eng, landmarks, tMs) ==
    LET fingerGesture == eng.lastFingerGesture
        gesture == fingerGesture.gesture
        acted == IsConfident(fingerGesture.confidence)
        mode == IF ~acted THEN "Idle"
                ELSE CASE gesture = "open_palm" -> "Zoom"
                       [] gesture = "closed_fist" -> "Zoom"
                       [] gesture = "one_finger" -> "Orbit"
                       [] OTHER -> "Idle"
        pinchDelta == IF ~acted THEN 0
                      ELSE CASE gesture = "open_palm" -> -8
                             [] gesture = "closed_fist" -> 8
                             [] OTHER -> 0
        slide == acted /\ gesture = "one_finger"
        currentX == primaryHand(landmarks).tipX
        yaw == IF slide /\ eng.lastIndexTipX # NULL /\ eng.lastTimestampMs # NULL
               THEN slideYaw(currentX, eng.lastIndexTipX, tMs, eng.lastTimestampMs)
               ELSE 0
        emit == /\ acted
                /\ gesture = "two_fingers"
                /\ CooldownOver(tMs, eng.lastVoiceToggleAt)
        \* try { eventBus.emit('voiceListenToggle', {}) } catch {}
        toggled == IF emit THEN busEmit(busListeners, "voiceListenToggle")
                   ELSE [listeners |-> busListeners, called |-> <<>>,
                         outcome |-> "returned"]
        returned == tryCatch(toggled.outcome) = "returned"
    IN  [eng |->
            IF ~returned THEN [eng EXCEPT !.lastVoiceToggleAt = tMs]
            ELSE
            [lastFingerGesture |-> fingerGesture,
             lastIndexTipX |-> IF gesture # "one_finger" THEN NULL
                               ELSE IF slide THEN currentX ELSE eng.lastIndexTipX,
             lastTimestampMs |-> IF gesture # "one_finger" THEN tMs
                                 ELSE IF slide THEN tMs ELSE eng.lastTimestampMs,
             lastVoiceToggleAt |-> IF emit THEN tMs ELSE eng.lastVoiceToggleAt,
             lastSnapshot |->
                [t |-> tMs, mode |-> mode,
                 pinch |-> IF gesture = "closed_fist" THEN 90 ELSE 10,
                 pinchDelta |-> pinchDelta, yaw |-> yaw, pitch |-> 0, roll |-> 0,
                 hands |-> Len(landmarks), quality |-> fingerGesture.confidence]],
         emitted |-> emit,
         returned |-> returned,
         bus |-> toggled,
         \* eventBus.emit calls the listeners before it returns, and lastSnapshot
         \* is assigned after the switch: this.lastSnapshot as a listener reads it
         atEmit |-> eng.lastSnapshot]

\* ingest(landmarks, tMs) on the engine fields eng and on the fields rec of its
\* recognizer
ingest(eng, rec, landmarks, tMs) ==
    IF Len(landmarks) = 0
    THEN [eng |-> [eng EXCEPT !.lastSnapshot = createIdleSnapshot(tMs),
                              !.lastFingerGesture = NoHandState],
          rec |-> rec, emitted |-> FALSE, atEmit |-> eng.lastSnapshot,
          returned |-> TRUE,
          bus |-> [listeners |-> busListeners, called |-> <<>>, outcome |-> "returned"],
          out |-> NoHandState]
    ELSE LET r == recognizeFingerGestures(rec, landmarks)
             p == processFingerGestures([eng EXCEPT !.lastFingerGesture = r.out],
                                        landmarks, tMs)
         IN  [eng |-> p.eng, rec |-> r.rec, emitted |-> p.emitted, atEmit |-> p.atEmit,
              returned |-> p.returned, bus |-> p.bus, out |-> r.out]

\* this.lastSnapshot = { ... } and this.lastSnapshot = this.createIdleSnapshot(tMs):
\* a new object becomes the current snapshot; what it does to the object h a
\* consumer holds
installSnapshotInPlace(h, snapshot) ==
    IF h.isCurrent THEN [h EXCEPT !.obj = snapshot] ELSE h
installSnapshot(h, snapshot) == [h EXCEPT !.isCurrent = FALSE]

engFields == [lastSnapshot |-> lastSnapshot, lastFingerGesture |-> lastFingerGesture,
              lastIndexTipX |-> lastIndexTipX, lastTimestampMs |-> lastTimestampMs,
              lastVoiceToggleAt |-> lastVoiceToggleAt]

\* what calibrateNeutral reads and writes: the calibration, the filters, the
\* state machine; and the snapshot
calibFields == [calibration |-> calibration, filters |-> filters, sm |-> smFields,
                snapshot |-> lastSnapshot]

EngInit ==
    /\ BusInit
    /\ VoiceInit
    /\ SlideInit
    /\ lastSnapshot = createIdleSnapshot(0)
    /\ lastFingerGesture = NoHandState
    /\ lastIndexTipX = NULL
    /\ lastTimestampMs = NULL
    /\ lastVoiceToggleAt = 0
    /\ toggles = <<>>
    /\ engEmitted = FALSE
    /\ ingestHands = <<>>
    /\ runToggles = 0
    /\ listenerSaw = <<>>
    /\ engOp = "none"
    /\ ingestReturned = TRUE
    /\ held = [isSet |-> FALSE, obj |-> createIdleSnapshot(0),
               atRead |-> createIdleSnapshot(0), isCurrent |-> FALSE]
    /\ FilterInit
    /\ calibration = [neutralYaw |-> 0, neutralPitch |-> 0, neutralRoll |-> 0,
                      handBaseline |-> 100]
    /\ previousValues = NULL
    /\ calibCall = [hands |-> -1, result |-> FALSE, unchanged |-> TRUE,
                    sm |-> smFields, filtering |-> {}]
    /\ calExt = [isSet |-> FALSE, from |-> "none", obj |-> calibration, shared |-> FALSE]
    /\ twin = [eng |-> engFields, rec |-> recFields, emitted |-> FALSE,
               differed |-> FALSE]

\* the frames and timestamps the landmark source delivers to the engine
EngFrames == {<<Hand(f, 40)>> : f \in {0, 2, 3, 4, 5}}
                \cup {<<Hand(1, x)>> : x \in {40, 45}}
                \cup {<<Hand(2, 40), Hand(5, 40)>>}
EngTimes == {100, 1900, 2400, 3200}

\* ingest(landmarks, tMs) on the engine and ingest(other, tMs) on the twin
IngestWith(landmarks, other, tMs) ==
    \E r \in {ingest(engFields, recFields, landmarks, tMs)} :
        /\ \E tw \in {ingest(twin.eng, twin.rec, other, tMs)} :
            twin' = [eng |-> tw.eng, rec |-> tw.rec, emitted |-> tw.emitted,
                     differed |-> (other # landmarks)]
        /\ lastSnapshot' = r.eng.lastSnapshot
        /\ lastFingerGesture' = r.eng.lastFingerGesture
        /\ lastIndexTipX' = r.eng.lastIndexTipX
        /\ lastTimestampMs' = r.eng.lastTimestampMs
        /\ lastVoiceToggleAt' = r.eng.lastVoiceToggleAt
        /\ gestureHistory' = r.rec.gestureHistory
        /\ lastStableGesture' = r.rec.lastStableGesture
        /\ toggles' = IF r.emitted THEN Append(toggles, tMs) ELSE toggles
        /\ engEmitted' = r.emitted
        /\ ingestHands' = IF ingestHands = <<>> THEN <<Len(landmarks)>>
                          ELSE <<ingestHands[Len(ingestHands)], Len(landmarks)>>
        /\ runToggles' = IF Len(landmarks) = 0 \/ r.out.gesture # "two_fingers" THEN 0
                         ELSE runToggles + (IF r.emitted THEN 1 ELSE 0)
        /\ listenerSaw' = IF r.emitted THEN <<r.atEmit>> ELSE <<>>
        /\ engOp' = "ingest"
        /\ held' = IF r.returned THEN installSnapshot(held, r.eng.lastSnapshot) ELSE held
        /\ ingestReturned' = r.returned
        /\ busListeners' = r.bus.listeners
        /\ busLast' = IF r.emitted
                      THEN [op |-> "emit", event |-> "voiceListenToggle",
                            atStart |-> busListeners["voiceListenToggle"],
                            called |-> r.bus.called]
                      ELSE busLast
        /\ recResult' = IF Len(landmarks) = 0 THEN recResult ELSE r.out
        /\ recStableBefore' = IF Len(landmarks) = 0 THEN recStableBefore
                              ELSE lastStableGesture
        /\ rawLog' = RawLogged(rawLog, landmarks)
        /\ UNCHANGED <<now, notIngest>>

Ingest(landmarks, tMs) == IngestWith(landmarks, landmarks, tMs)

\* pairs of frames that are the same but for the landmarks of the second hand
TwinFrames ==
    {<<(<<p, Hand(5, 40)>>), (<<p, Hand(2, 45)>>)>> :
        p \in {Hand(1, 40), Hand(1, 45), Hand(2, 40), Hand(5, 40)}}
TwinIngestHands ==
    \E pair \in TwinFrames, tMs \in EngTimes :
        /\ Len(gestureHistory) < MaxIngest
        /\ IngestWith(pair[1], pair[2], tMs)

IngestHands ==
    \E landmarks \in EngFrames, tMs \in EngTimes :
        /\ Len(gestureHistory) < MaxIngest
        /\ Ingest(landmarks, tMs)
IngestNoHands == \E tMs \in EngTimes : Ingest(NoHandFrame, tMs)

\* read(): returns this.lastSnapshot, the object itself
Read ==
    /\ held' = [isSet |-> TRUE, obj |-> lastSnapshot, atRead |-> lastSnapshot,
                isCurrent |-> TRUE]
    /\ engOp' = "read"
    /\ UNCHANGED <<now, engVars, recVars, recHist, toggles, engEmitted, ingestHands,
                   runToggles, listenerSaw, ingestReturned, notEng>>

\* A hand as calibrateNeutral sees it: the number of its landmarks, the palm
\* orientation <<yaw, pitch, roll>> calculatePalmOrientation computes from them
\* and the wrist to index-MCP distance calculateHandBaseline computes
\* (thousandths).
CalHand(n, palm, baseline) == [n |-> n, palm |-> palm, baseline |-> baseline]

\* extractHandFrame(landmarks) is not null
hasHandFrame(hand) == hand.n >= 21
calculatePalmOrientation(hand) ==
    [yaw |-> hand.palm[1], pitch |-> hand.palm[2], roll |-> hand.palm[3]]
calculateHandBaseline(hand) == hand.baseline

\* `return false` of a call without a hand, on the fields st
calibrationRefusedAfterReset(st) ==
    [st |-> [st EXCEPT !.filters = gestureFilterReset(st.filters)], result |-> FALSE]
calibrationRefused(st) == [st |-> st, result |-> FALSE]

\* calibrateNeutral(landmarks) on the fields st: the fields after it and the
\* value returned
calibrateNeutral(st, landmarks) ==
    IF Len(landmarks) = 0 THEN calibrationRefused(st)
    ELSE IF ~hasHandFrame(landmarks[1]) THEN [st |-> st, result |-> FALSE]
    ELSE LET o == calculatePalmOrientation(landmarks[1])
         IN  [st |-> [st EXCEPT
                        !.calibration = [neutralYaw |-> o.yaw, neutralPitch |-> o.pitch,
                                         neutralRoll |-> o.roll,
                                         handBaseline |->
                                            calculateHandBaseline(landmarks[1])],
                        !.filters = gestureFilterReset(st.filters),
                        !.sm = smReset(st.sm)],
              result |-> TRUE]

CalibrateNeutral(landmarks) ==
    \E r \in {calibrateNeutral(calibFields, landmarks)} :
        /\ calibration' = r.st.calibration
        /\ filters' = r.st.filters
        /\ currentMode' = r.st.sm.currentMode
        /\ modeTimer' = r.st.sm.modeTimer
        /\ lastTransition' = r.st.sm.lastTransition
        /\ previousValues' = IF r.result THEN NULL ELSE previousValues
        /\ IF r.result
           THEN /\ SMResetSeen
                /\ FilterResetSeen(filters)
                /\ calibFresh' = Channels
           ELSE UNCHANGED <<smHist, resetFresh, calibFresh>>
        /\ calibCall' = [hands |-> Len(landmarks), result |-> r.result,
                         unchanged |-> (r.st = calibFields),
                         sm |-> r.st.sm,
                         filtering |-> {ch \in Channels : r.st.filters[ch].initialized}]
        /\ engOp' = "calibrate"
        /\ calExt' = IF r.result THEN [calExt EXCEPT !.shared = FALSE] ELSE calExt
        /\ UNCHANGED <<now, moreVars, busVars, twinVars, streamStopped, fltCall, recVars, recHist, engVars, toggles,
                       engEmitted, ingestHands, runToggles, listenerSaw, held, ingestReturned, mapVars,
                       camVars,
                       mapHist>>

\* { ...c }: a new object with the fields of c, and whether it is c itself
spreadCalibrationSameObject(c) == [obj |-> c, shared |-> TRUE]
spreadCalibration(c) == [obj |-> c, shared |-> FALSE]

\* getCalibration(): the caller holds what it returns
GetCalibration ==
    /\ \E r \in {spreadCalibration(calibration)} :
        calExt' = [isSet |-> TRUE, from |-> "get", obj |-> r.obj, shared |-> r.shared]
    /\ engOp' = "getCalibration"
    /\ UNCHANGED <<now, moreVars, busVars, twinVars, streamStopped, fltVars, fltHist, calVars,
                   calHist, smVars, smHist, recVars, recHist, engVars, toggles,
                   engEmitted, ingestHands, runToggles, listenerSaw, held, ingestReturned, mapVars,
                   camVars, mapHist>>

\* setCalibration(c): the engine keeps { ...c }, the caller keeps c
SetCalibration(c) ==
    /\ \E r \in {spreadCalibration(c)} :
        /\ calibration' = r.obj
        /\ calExt' = [isSet |-> TRUE, from |-> "set", obj |-> c, shared |-> r.shared]
    /\ engOp' = "setCalibration"
    /\ UNCHANGED <<now, moreVars, busVars, twinVars, streamStopped, fltVars, fltHist,
                   previousValues, calHist, smVars, smHist, recVars, recHist, engVars,
                   toggles, engEmitted, ingestHands, runToggles, listenerSaw, held,
                   ingestReturned,
                   mapVars, camVars, mapHist>>

\* the caller assigns handBaseline of the object it holds
MutateHeldCalibration(v) ==
    /\ calExt.isSet
    /\ calExt' = [calExt EXCEPT !.obj.handBaseline = v]
    /\ calibration' = IF calExt.shared THEN calExt'.obj ELSE calibration
    /\ engOp' = "mutate"
    /\ UNCHANGED <<now, moreVars, busVars, twinVars, streamStopped, fltVars, fltHist,
                   previousValues, calHist, smVars, smHist, recVars, recHist, engVars,
                   toggles, engEmitted, ingestHands, runToggles, listenerSaw, held,
                   ingestReturned,
                   mapVars, camVars, mapHist>>

\* the calibrations a caller restores and the values it writes into its object
CalValues == {[neutralYaw |-> 100, neutralPitch |-> 0, neutralRoll |-> 0,
               handBaseline |-> 120]}
CalWrites == {50, 200}
SetCalibrationStep == \E c \in CalValues : SetCalibration(c)
MutateHeldCalibrationStep == \E v \in CalWrites : MutateHeldCalibration(v)

\* the landmarks handed to calibrateNeutral: none, a hand, a hand of 20 landmarks
CalFrames == {<<>>, <<CalHand(21, <<300, -100, 50>>, 150)>>,
              <<CalHand(20, <<0, 0, 0>>, 150)>>}
CalibrateStep == \E landmarks \in CalFrames : CalibrateNeutral(landmarks)

\* the frames and timestamps of the sessions in which a consumer reads
ReaderFrames == {<<Hand(5, 40)>>, <<Hand(1, 40)>>}
ReaderTimes == {100, 1900}
ReaderIngestHands ==
    \E landmarks \in ReaderFrames, tMs \in ReaderTimes :
        /\ Len(gestureHistory) < MaxIngest
        /\ Ingest(landmarks, tMs)
ReaderIngestNoHands == \E tMs \in ReaderTimes : Ingest(NoHandFrame, tMs)


(***************************************************************************)
(* HandGestureControlsV2 and the OrbitControls camera                      *)
(*                                                                         *)
(* The camera is its offset from controls.target in the spherical          *)
(* coordinates THREE.Spherical reads from it: radius = controls            *)
(* .getDistance(), theta the azimuth in (-pi, pi], phi the polar angle in  *)
(* [0, pi].  Distances are in hundredths, angles in millionths of a        *)
(* radian, gains and pinchDelta in tenths, yaw and pitch in thousandths of *)
(* a radian per second, dt in thousandths of a second.                     *)
(***************************************************************************)
MOUSE_PRIORITY_WINDOW == 300

\* Math.PI and Math.PI / 60, in millionths
PI == 3141593
MAX_ROTATION_PER_FRAME == 52360

\* 1.08 and 1, in hundred-thousandths
MAX_ZOOM_SCALE_PER_FRAME == 108000
UNIT_SCALE == 100000

\* the rate limit 0.5 of scaledDelta, in hundred-thousandths
MAX_SCALED_DELTA == 50000

\* EPS = 0.01 of applyRotation, in millionths
EPS == 10000

\* the limits 0.1 and 5.0 of setSensitivity, in tenths
MIN_GAIN == 1
MAX_GAIN == 50


\* now - this.lastMouseActivity > this.MOUSE_PRIORITY_WINDOW
shouldAcceptGesturesFromWindow(n, last) == n - last >= MOUSE_PRIORITY_WINDOW
shouldAcceptGestures(n, last) == n - last > MOUSE_PRIORITY_WINDOW

\* Math.min(this.MAX_ZOOM_SCALE_PER_FRAME, scale)
capScaleNot(scale) == scale
capScale(scale) == Min(MAX_ZOOM_SCALE_PER_FRAME, scale)

\* Math.max(-MAX_ROTATION_PER_FRAME, Math.min(MAX_ROTATION_PER_FRAME, delta))
clampRotationNot(delta) == delta
clampRotation(delta) == Clamp(delta, -MAX_ROTATION_PER_FRAME, MAX_ROTATION_PER_FRAME)

\* the azimuth Spherical.setFromVector3 reads back: atan2, in (-pi, pi]
WrapAngle(a) ==
    IF a > PI THEN a - 2 * PI
    ELSE IF a <= -PI THEN a + 2 * PI
    ELSE a

\* Math.max(this.controls.minDistance, Math.min(this.controls.maxDistance, newDistance))
boundDistanceNot(newDistance, lo, hi) == newDistance
boundDistance(newDistance, lo, hi) == Max(lo, Min(hi, newDistance))

\* newDistance of applyZoom: currentDistance / clampedScale to zoom in,
\* currentDistance * clampedScale to zoom out
zoomedDistanceReversed(currentDistance, clampedDelta, clampedScale) ==
    IF clampedDelta > 0
    THEN (currentDistance * clampedScale) \div UNIT_SCALE
    ELSE (currentDistance * UNIT_SCALE) \div clampedScale
zoomedDistance(currentDistance, clampedDelta, clampedScale) ==
    IF clampedDelta > 0
    THEN (currentDistance * UNIT_SCALE) \div clampedScale
    ELSE (currentDistance * clampedScale) \div UNIT_SCALE

\* spherical.phi = Math.max(EPS, Math.min(Math.PI - EPS, spherical.phi))
clampPolarNot(phi) == phi
clampPolar(phi) == Max(EPS, Min(PI - EPS, phi))

\* applyZoom(gesture, dt): the camera after it
applyZoom(cam, gain, lo, hi, gesture, dt) ==
    IF gesture.pinchDelta = 0 THEN cam
    ELSE LET scaledDelta == gesture.pinchDelta * gain * dt
             clampedDelta == Clamp(scaledDelta, -MAX_SCALED_DELTA, MAX_SCALED_DELTA)
             scale == UNIT_SCALE + Abs(clampedDelta)
             clampedScale == capScale(scale)
             currentDistance == cam.radius
             newDistance == zoomedDistance(currentDistance, clampedDelta, clampedScale)
             bounded == boundDistance(newDistance, lo, hi)
         IN  \* the direction of a camera that sits on the target normalizes to 0
             IF currentDistance = 0 THEN cam ELSE [cam EXCEPT !.radius = bounded]

\* applyRotation(gesture, dt): the camera after it
applyRotationPushesOut(cam, yGain, pGain, gesture, dt) ==
    [cam EXCEPT !.theta = WrapAngle(cam.theta + clampRotation(gesture.yaw * yGain * dt)),
                !.phi = clampPolar(cam.phi + clampRotation(gesture.pitch * pGain * dt)),
                !.radius = cam.radius + 100]
applyRotation(cam, yGain, pGain, gesture, dt) ==
    LET yawDelta == gesture.yaw * yGain * dt
        pitchDelta == gesture.pitch * pGain * dt
        clampedYaw == clampRotation(yawDelta)
        clampedPitch == clampRotation(pitchDelta)
        theta == cam.theta + clampedYaw
        phi == clampPolar(cam.phi + clampedPitch)
    IN  [cam EXCEPT !.theta = WrapAngle(theta), !.phi = phi]

\* this.controls.update() of OrbitControls, with no pointer motion pending:
\* the distance is kept within [minDistance, maxDistance]
controlsUpdate(cam, lo, hi) == [cam EXCEPT !.radius = Max(lo, Min(hi, cam.radius))]

\* Math.max(0.1, Math.min(5.0, value))
clampGain(value) == Max(MIN_GAIN, Min(MAX_GAIN, value))

MapInit ==
    /\ isEnabled = TRUE
    /\ zoomGain = 8
    /\ yawGain = 12
    /\ pitchGain = 10
    /\ lastMouseActivity = 0
    /\ applyArg = [snapshot |-> [mode |-> "none", pinchDelta |-> 0, yaw |-> 0,
                                 pitch |-> 0],
                   dt |-> 0]
    /\ applyEnabled = TRUE
    /\ applySincePointer = -1
    /\ applyUpdated = FALSE
    /\ lastPointerAt = -1
    /\ applyCount = 0
    /\ applyZoomed = -1
    /\ applyAfterStop = FALSE
    /\ streamStopped = FALSE

\* camera.position.set(0, 20, 0) above the target, maxDistance 50
CamInit ==
    /\ camera = [radius |-> 2000, theta |-> 0, phi |-> 0]
    /\ minDistance = 500
    /\ maxDistance = 5000
    /\ target = <<0, 0, 0>>
    /\ applyBefore = camera

\* the cameras a session of the mapper starts from: above the target, and low
\* on the far side next to the nearest distance
CamStarts == {[radius |-> 2000, theta |-> 0, phi |-> 0],
              [radius |-> 510, theta |-> 3120000, phi |-> 3100000],
              [radius |-> 4900, theta |-> 0, phi |-> 1570796]}

Apply(gesture, dt) ==
    LET accepted == isEnabled /\ shouldAcceptGestures(now, lastMouseActivity)
        moved == CASE gesture.mode = "Zoom" ->
                        applyZoom(camera, zoomGain, minDistance, maxDistance, gesture, dt)
                   [] gesture.mode = "Orbit" ->
                        applyRotation(camera, yawGain, pitchGain, gesture, dt)
                   [] OTHER -> camera
    IN  /\ applyCount < MaxApply
        /\ camera' = IF accepted THEN controlsUpdate(moved, minDistance, maxDistance)
                     ELSE camera
        /\ applyArg' = [snapshot |-> gesture, dt |-> dt]
        /\ applyBefore' = camera
        /\ applyEnabled' = isEnabled
        /\ applySincePointer' = IF lastPointerAt = -1 THEN -1 ELSE now - lastPointerAt
        /\ applyUpdated' = accepted
        /\ applyCount' = IF accepted THEN applyCount + 1 ELSE applyCount
        /\ applyAfterStop' = streamStopped
        /\ applyZoomed' = IF accepted /\ gesture.mode = "Zoom" /\ gesture.pinchDelta # 0
                          THEN moved.radius ELSE -1
        /\ UNCHANGED <<now, mapVars, minDistance, maxDistance, target, lastPointerAt,
                       notMap>>

\* updateMouseActivity: mousedown, mousemove, wheel, contextmenu, touchstart or
\* touchmove on the canvas
PointerEvent ==
    /\ lastMouseActivity' = now
    /\ lastPointerAt' = now
    /\ UNCHANGED <<now, isEnabled, zoomGain, yawGain, pitchGain, camVars, applyArg,
                   applyBefore, applyEnabled, applySincePointer, applyUpdated,
                   applyCount, applyZoomed, applyAfterStop, notMap>>

SetEnabled(enabled) ==
    /\ isEnabled' = enabled
    /\ UNCHANGED <<now, zoomGain, yawGain, pitchGain, lastMouseActivity, camVars,
                   applyArg, applyBefore, applyEnabled, applySincePointer,
                   applyUpdated, lastPointerAt, applyCount, applyZoomed,
                   applyAfterStop, notMap>>

\* setSensitivity(zoom?, yaw?, pitch?); NULL is undefined
SetSensitivity(zoom, yaw, pitch) ==
    /\ zoomGain' = IF zoom # NULL THEN clampGain(zoom) ELSE zoomGain
    /\ yawGain' = IF yaw # NULL THEN clampGain(yaw) ELSE yawGain
    /\ pitchGain' = IF pitch # NULL THEN clampGain(pitch) ELSE pitchGain
    /\ UNCHANGED <<now, isEnabled, lastMouseActivity, camVars, applyArg, applyBefore,
                   applyEnabled, applySincePointer, applyUpdated, lastPointerAt,
                   applyCount, applyZoomed, applyAfterStop, notMap>>

MapTick(d) ==
    /\ now + d <= MaxMapNow
    /\ now' = now + d
    /\ UNCHANGED <<mapVars, camVars, mapHist, notMap>>

\* the snapshots and frame times (ms) handed to apply()
Snapshot(mode, pinchDelta, yaw, pitch) ==
    [mode |-> mode, pinchDelta |-> pinchDelta, yaw |-> yaw, pitch |-> pitch]
ApplyInputs ==
    {<<Snapshot("Zoom", 8, 0, 0), 16>>,            \* closed_fist, a 60 Hz frame
     <<Snapshot("Zoom", -8, 0, 0), 1000>>,         \* open_palm, a one second stall
     <<Snapshot("Zoom", 1000, 0, 0), 16>>,         \* a pinchDelta of 100
     <<Snapshot("Zoom", 0, 0, 0), 16>>,
     <<Snapshot("Orbit", 0, 1000, 0), 16>>,        \* the slide of 1 rad/s
     <<Snapshot("Orbit", 0, -10000, -10000), 1000>>,
     <<Snapshot("Orbit", 0, 100, 500), 16>>,
     <<Snapshot("Idle", 8, 1000, 0), 16>>}
\* the arguments of setSensitivity(zoom, yaw, pitch)
Sensitivities == {<<100, 100, NULL>>}

ApplyStep == \E a \in ApplyInputs : Apply(a[1], a[2])
SetEnabledStep == \E enabled \in BOOLEAN : SetEnabled(enabled)
SetSensitivityStep == \E g \in Sensitivities : SetSensitivity(g[1], g[2], g[3])
MapTickStep == \E d \in {150} : MapTick(d)

InitMapper ==
    /\ now = 0
    /\ SMInit /\ RecInit /\ EngInit /\ MapInit
    /\ camera \in CamStarts
    /\ minDistance = 500
    /\ maxDistance = 5000
    /\ target = <<0, 0, 0>>
    /\ applyBefore = camera
NextMapper == ApplyStep \/ PointerEvent \/ SetEnabledStep \/ SetSensitivityStep
                \/ MapTickStep
SpecMapper == InitMapper /\ [][NextMapper]_vars

(***************************************************************************)
(* The page: the landmark source hands frames to the engine                *)
(* (handTracker.onResults), and tick() applies the engine's snapshot to    *)
(* the camera once per render frame.                                       *)
(***************************************************************************)
\* handTracker.onResults: gestureEngine.ingest(results.landmarks, timestamp)
OnResults(landmarks) ==
    /\ ~streamStopped
    /\ Len(landmarks) > 0 => Len(gestureHistory) < MaxIngest
    /\ Ingest(landmarks, now)

\* the landmark source stops delivering frames
StopStream ==
    /\ ~streamStopped
    /\ streamStopped' = TRUE
    /\ UNCHANGED <<now, moreVars, busVars, twinVars, calExtVars, smVars, smHist, recVars, recHist, engVars, engHist, mapVars,
                   camVars, mapHist, fltVars, fltHist, calVars, calHist>>

\* tick(): handControls.apply(gestureEngine.read(), deltaTime)
RenderFrame(dt) == Apply(lastSnapshot, dt)

PageFrames == {<<Hand(0, 40)>>, <<Hand(1, 40)>>, NoHandFrame}
FrameTimes == {16}

OnResultsStep == \E landmarks \in PageFrames : OnResults(landmarks)
RenderFrameStep == \E dt \in FrameTimes : RenderFrame(dt)

InitPage == now = 0 /\ SMInit /\ RecInit /\ EngInit /\ MapInit /\ CamInit
NextPage == OnResultsStep \/ StopStream \/ RenderFrameStep \/ MapTickStep
SpecPage == InitPage /\ [][NextPage]_vars

(***************************************************************************)
(* Specification of the GestureFilter alone                                *)
(***************************************************************************)
InitFilter == now = 0 /\ SMInit /\ RecInit /\ EngInit /\ MapInit /\ CamInit
NextFilter == FilterPinchStep \/ FilterOrientationStep \/ FilterReset
SpecFilter == InitFilter /\ [][NextFilter]_vars

(***************************************************************************)
(* Specification of calibration: the engine with its filters and its state *)
(* machine in use                                                          *)
(***************************************************************************)
CalFilterPinchStep == \E t \in {100} : FilterPinch(800, t)
CalFilterOrientationStep ==
    \E o \in OrientationValues, t \in {100, 200} : FilterOrientation(o[1], o[2], o[3], t)
CalUpdateStep == Update(90, FALSE, 120)
CalOnResultsStep ==
    \E landmarks \in {<<Hand(0, 40)>>, NoHandFrame} :
        /\ Len(gestureHistory) < MaxCalIngest
        /\ OnResults(landmarks)

InitCalibration == now = 100 /\ SMInit /\ RecInit /\ EngInit /\ MapInit /\ CamInit
NextCalibration == CalibrateStep \/ CalFilterPinchStep \/ CalFilterOrientationStep
                     \/ CalUpdateStep \/ CalOnResultsStep
SpecCalibration == InitCalibration /\ [][NextCalibration]_vars

(***************************************************************************)
(* Specification of the GestureEngine with its recognizer                  *)
(***************************************************************************)
InitEngine == now = 0 /\ SMInit /\ RecInit /\ EngInit /\ MapInit /\ CamInit
NextEngine == IngestHands \/ IngestNoHands
SpecEngine == InitEngine /\ [][NextEngine]_vars

(***************************************************************************)
(* Specification of the GestureEngine with a consumer that calls read()    *)
(***************************************************************************)
InitReader == now = 0 /\ SMInit /\ RecInit /\ EngInit /\ MapInit /\ CamInit
NextReader == ReaderIngestHands \/ ReaderIngestNoHands \/ Read
SpecReader == InitReader /\ [][NextReader]_vars

(***************************************************************************)
(* Specification of the GestureRecognizer alone                            *)
(***************************************************************************)
InitRecognizer == now = 0 /\ SMInit /\ RecInit /\ EngInit /\ MapInit /\ CamInit
NextRecognizer == RecognizeHand \/ RecognizeNoHand
SpecRecognizer == InitRecognizer /\ [][NextRecognizer]_vars

(***************************************************************************)
(* Specification of the GestureStateMachine alone                          *)
(***************************************************************************)
InitSlide == now = 0 /\ SMInit /\ RecInit /\ EngInit /\ MapInit /\ CamInit
NextSlide == SlideIngestStep
SpecSlide == InitSlide /\ [][NextSlide]_vars

InitTwin == now = 0 /\ SMInit /\ RecInit /\ EngInit /\ MapInit /\ CamInit
NextTwin == TwinIngestHands \/ IngestNoHands
SpecTwin == InitTwin /\ [][NextTwin]_vars

CalDataTickStep == \E d \in {100} : Tick(d)
InitCalData == now = 0 /\ SMInit /\ RecInit /\ EngInit /\ MapInit /\ CamInit
NextCalData == CalibrateStep \/ SetCalibrationStep \/ GetCalibration
                 \/ MutateHeldCalibrationStep \/ CalOnResultsStep \/ Read
                 \/ CalDataTickStep
SpecCalData == InitCalData /\ [][NextCalData]_vars

InitPinch == now = 0 /\ SMInit /\ RecInit /\ EngInit /\ MapInit /\ CamInit
NextPinch == CalculatePinchStrengthStep
SpecPinch == InitPinch /\ [][NextPinch]_vars

busRest == <<now, sldVars, pinVars, voiceVars, twinVars, calExtVars, streamStopped, fltVars, fltHist,
            calVars, calHist, smVars, smHist, recVars, recHist, engVars, engHist, mapVars,
            camVars, mapHist>>
BusOnStep ==
    \E event \in BusEvents : \E listener \in BusListenersOf(event) :
        BusOn(event, listener) /\ UNCHANGED busRest
BusOffStep ==
    \E event \in BusEvents : \E listener \in BusListenersOf(event) :
        BusOff(event, listener) /\ UNCHANGED busRest
BusEmitStep == \E event \in BusEvents : BusEmit(event) /\ UNCHANGED busRest
InitBus == now = 0 /\ SMInit /\ RecInit /\ EngInit /\ MapInit /\ CamInit
NextBus == BusOnStep \/ BusOffStep \/ BusEmitStep
SpecBus == InitBus /\ [][NextBus]_vars

\* the page with listeners of voiceListenToggle that return, throw or
\* unsubscribe, and the frames of a peace sign and of an open palm
ThrowListenerOnStep ==
    \E listener \in 1..3 : BusOn("voiceListenToggle", listener) /\ UNCHANGED busRest
ThrowFrames == {<<Hand(2, 40)>>, <<Hand(5, 40)>>}
ThrowIngestStep ==
    \E landmarks \in ThrowFrames, tMs \in EngTimes :
        /\ Len(gestureHistory) < MaxIngest
        /\ Ingest(landmarks, tMs)
InitThrow == now = 0 /\ SMInit /\ RecInit /\ EngInit /\ MapInit /\ CamInit
NextThrow == ThrowListenerOnStep \/ ThrowIngestStep
SpecThrow == InitThrow /\ [][NextThrow]_vars

voiceRest == <<now, sldVars, pinVars, busVars, twinVars, calExtVars, streamStopped, fltVars,
              fltHist, calVars, calHist, smVars, smHist, recVars, recHist, engVars, engHist,
              mapVars, camVars, mapHist>>
VoiceListenToggleStep == VoiceListenToggle /\ UNCHANGED voiceRest
ButtonClickStep == ButtonClick /\ UNCHANGED voiceRest
VoiceToggleStep == \E enabled \in BOOLEAN : VoiceToggle(enabled) /\ UNCHANGED voiceRest
GetUserMediaResolvesStep == GetUserMediaResolves /\ UNCHANGED voiceRest
GetUserMediaRejectsStep == GetUserMediaRejects /\ UNCHANGED voiceRest
AutoStopFiresStep == AutoStopFires /\ UNCHANGED voiceRest
RecorderStoppedStep ==
    \E id \in Recorders, blob \in BOOLEAN : RecorderStopped(id, blob) /\ UNCHANGED voiceRest
TranscriptionReturnsStep ==
    \E id \in Recorders, response \in Responses :
        TranscriptionReturns(id, response) /\ UNCHANGED voiceRest
IntentTimerFiresStep == \E id \in Recorders : IntentTimerFires(id) /\ UNCHANGED voiceRest
InitVoice == now = 0 /\ SMInit /\ RecInit /\ EngInit /\ MapInit /\ CamInit
NextVoice ==
    \/ VoiceListenToggleStep
    \/ ButtonClickStep
    \/ VoiceToggleStep
    \/ GetUserMediaResolvesStep
    \/ GetUserMediaRejectsStep
    \/ AutoStopFiresStep
    \/ RecorderStoppedStep
    \/ TranscriptionReturnsStep
    \/ IntentTimerFiresStep
SpecVoice == InitVoice /\ [][NextVoice]_vars

InitSM == now \in {0, 100} /\ SMInit /\ RecInit /\ EngInit /\ MapInit /\ CamInit
NextSM == UpdateStep \/ Reset \/ TickStep
SpecSM == InitSM /\ [][NextSM]_vars

(***************************************************************************)
(* Claims about the GestureStateMachine (SpecSM)                           *)
(***************************************************************************)
\* C1: whenever update() changes the mode from M to M', the candidate mode of
\* the inputs was M' on every update() call of a trailing span whose dt values
\* sum to at least the required delay of M (80 ms from Idle, 120 ms otherwise).
C1_ChangeOnlyAfterStableCandidate ==
    (smOp = "update" /\ currentMode # smBefore)
        => (candMode = currentMode /\ candSpan >= requiredDelay(smBefore))

\* C2 as claimed: an update() entered less than 100 ms after a change that
\* update() committed returns the mode unchanged, whatever its inputs and dt.
C2_NoChangeWithinMinDuration ==
    (smOp = "update" /\ smGap # -1 /\ smGap < MIN_MODE_DURATION)
        => currentMode = smBefore

\* C2 amended: with no reset() since that change, an update() entered less than
\* 100 ms after a change that update() committed returns the mode unchanged.
C2_NoChangeWithinMinDurationSinceReset ==
    (smOp = "update" /\ smGap # -1 /\ smGap < MIN_MODE_DURATION /\ ~smResetBetween)
        => currentMode = smBefore

\* an update() inside the cooldown whose candidate differs from the mode and
\* whose timer has reached the required delay: only the cooldown holds it back
C2_SuppressedInCooldown ==
    /\ smOp = "update"
    /\ smGap # -1 /\ smGap < MIN_MODE_DURATION /\ ~smResetBetween
    /\ candMode # smBefore
    /\ modeTimer >= requiredDelay(smBefore)
    /\ currentMode = smBefore

(***************************************************************************)
(* Claims about the GestureRecognizer (SpecRecognizer)                     *)
(***************************************************************************)
\* C6: recognizeFingerGestures changes the reported stable gesture to g only
\* when the count of g in the history divided by the capacity of the buffer (8)
\* is greater than 0.6, also while fewer than 8 frames have been pushed; one
\* frame alone never changes it.
C6_OverwriteOnlyAboveSixtyPercentOfCapacity ==
    lastStableGesture # recStableBefore
        => 10 * Freq(gestureHistory, lastStableGesture) > 6 * gestureHistorySize

\* C7: once the history holds 8 classified frames, a gesture g that accounts
\* for at least 5 of them is the gesture reported, with confidence count(g)/8.
C7_MajorityOfEightIsReported ==
    (Len(gestureHistory) = gestureHistorySize /\ recResult.isHandVisible)
        => \A g \in FingerGestures :
              Freq(gestureHistory, g) >= 5
                 => /\ recResult.gesture = g
                    /\ recResult.confidence.num * gestureHistorySize
                          = Freq(gestureHistory, g) * recResult.confidence.den

\* seven closed_fist frames and one unknown frame among them, reported as
\* closed_fist with confidence 7/8
C7_SevenFistsOneUnknown ==
    /\ Len(gestureHistory) = gestureHistorySize
    /\ Freq(gestureHistory, "closed_fist") = 7
    /\ gestureHistory[4] = "unknown"
    /\ recResult.isHandVisible
    /\ recResult.gesture = "closed_fist"
    /\ recResult.confidence = Conf(7, 8)

(***************************************************************************)
(* Claims about the GestureEngine (SpecEngine)                             *)
(***************************************************************************)
\* the last ingest had a hand and its reported gesture is acted on as g
ActedOn(g) ==
    /\ lastSnapshot.hands >= 1
    /\ lastFingerGesture.gesture = g
    /\ 2 * lastFingerGesture.confidence.num > lastFingerGesture.confidence.den

\* C8: any two emissions of voiceListenToggle have ingest timestamps more than
\* 1200 ms apart (so two two_fingers gestures 500 ms apart emit it once).
C8_TogglesMoreThanCooldownApart ==
    \A i, j \in 1..Len(toggles) :
        i < j => toggles[j] - toggles[i] > VOICE_TOGGLE_COOLDOWN_MS

\* a two_fingers gesture 500 ms after the one that emitted the toggle, which
\* emits nothing
C8_SecondGestureWithinCooldown ==
    /\ ActedOn("two_fingers")
    /\ Len(toggles) = 1
    /\ lastSnapshot.t - toggles[1] = 500
    /\ ~engEmitted

\* C9: every ingest whose reported gesture is two_fingers with confidence above
\* 0.5 emits voiceListenToggle when no toggle was emitted in the 1200 ms before
\* its timestamp, the first two_fingers gesture of a session included.
C9_EmitsWhenNoToggleInCooldown ==
    ActedOn("two_fingers")
        => LET before == IF engEmitted THEN SubSeq(toggles, 1, Len(toggles) - 1)
                         ELSE toggles
               recent == {i \in 1..Len(before) :
                            /\ lastSnapshot.t - VOICE_TOGGLE_COOLDOWN_MS <= before[i]
                            /\ before[i] <= lastSnapshot.t}
           IN  recent = {} => engEmitted

\* C10: after an ingest with a hand, mode and pinchDelta of the snapshot follow
\* from the reported gesture and confidence: above 0.5, open_palm gives
\* (Zoom, -0.8), closed_fist (Zoom, +0.8), one_finger (Orbit, 0), two_fingers
\* (Idle, 0); unknown or a confidence not above 0.5 gives (Idle, 0) and yaw 0.
C10_SnapshotFollowsGesture ==
    lastSnapshot.hands >= 1
        => /\ ActedOn("open_palm")
                => lastSnapshot.mode = "Zoom" /\ lastSnapshot.pinchDelta = -8
           /\ ActedOn("closed_fist")
                => lastSnapshot.mode = "Zoom" /\ lastSnapshot.pinchDelta = 8
           /\ ActedOn("one_finger")
                => lastSnapshot.mode = "Orbit" /\ lastSnapshot.pinchDelta = 0
           /\ ActedOn("two_fingers")
                => lastSnapshot.mode = "Idle" /\ lastSnapshot.pinchDelta = 0
           /\ (ActedOn("unknown") \/ ~ActedOn(lastFingerGesture.gesture))
                => /\ lastSnapshot.mode = "Idle"
                   /\ lastSnapshot.pinchDelta = 0
                   /\ lastSnapshot.yaw = 0

\* open_palm reported with confidence exactly 1/2 (an open palm, then a fist):
\* not acted on
C10_OpenPalmAtHalfIsIdle ==
    /\ lastSnapshot.hands >= 1
    /\ lastFingerGesture.gesture = "open_palm"
    /\ lastFingerGesture.confidence = Conf(1, 2)
    /\ lastSnapshot.mode = "Idle"
    /\ lastSnapshot.pinchDelta = 0
    /\ lastSnapshot.quality = Conf(1, 2)

(***************************************************************************)
(* Claims about HandGestureControlsV2 (SpecMapper)                         *)
(***************************************************************************)
\* the last apply() was let through to the camera
ApplyAccepted == applyArg.snapshot.mode # "none" /\ applyUpdated

\* the shortest way round from azimuth a to azimuth b
AngleBetween(a, b) == Min(Abs(a - b), 2 * PI - Abs(a - b))

\* C3: one apply() changes the distance from the camera to the target by a
\* factor within [1/1.08, 1.08], for every snapshot, every gain setSensitivity
\* can set and every dt.  The distance has the 0.01 grid of the fixed point,
\* and the quotient of the zoom-in is rounded down onto it.
C3_ZoomFactorWithinCap ==
    /\ UNIT_SCALE * camera.radius <= MAX_ZOOM_SCALE_PER_FRAME * applyBefore.radius
    /\ MAX_ZOOM_SCALE_PER_FRAME * (camera.radius + 1) > UNIT_SCALE * applyBefore.radius

\* a zoom whose scaledDelta lies beyond the cap (pinchDelta * zoomGain * dt above
\* 0.08) and whose distance moved by the capped factor 1.08 exactly
C3_ZoomAtTheCap ==
    /\ ApplyAccepted
    /\ applyArg.snapshot.mode = "Zoom"
    /\ Abs(applyArg.snapshot.pinchDelta * zoomGain * applyArg.dt)
          > MAX_ZOOM_SCALE_PER_FRAME - UNIT_SCALE
    /\ camera.radius # applyBefore.radius
    /\ \/ camera.radius = (applyBefore.radius * UNIT_SCALE) \div MAX_ZOOM_SCALE_PER_FRAME
       \/ camera.radius = (applyBefore.radius * MAX_ZOOM_SCALE_PER_FRAME) \div UNIT_SCALE

C5_NoOpWhenDisabledOrPointerRecent ==
    (applyArg.snapshot.mode # "none"
        /\ (~applyEnabled
              \/ (applySincePointer # -1 /\ applySincePointer <= MOUSE_PRIORITY_WINDOW)))
        => camera = applyBefore /\ ~applyUpdated

\* an enabled mapper handed a closed_fist Zoom snapshot exactly 300 ms after a
\* pointer event: nothing moves
C5_PointerWinsAtWindowEdge ==
    /\ applyArg.snapshot.mode = "Zoom"
    /\ applyArg.snapshot.pinchDelta = 8
    /\ applyEnabled
    /\ applySincePointer = MOUSE_PRIORITY_WINDOW
    /\ camera = applyBefore
    /\ ~applyUpdated

(***************************************************************************)
(* Further claims about the GestureEngine (SpecEngine)                     *)
(***************************************************************************)
\* C11: an ingest with no hands leaves the idle snapshot (mode Idle, pinchDelta
\* 0, yaw 0, pitch 0, hands 0, quality 0) and a reset fingertip tracker, and the
\* first one_finger frame acted on after a no-hands frame has yaw 0.
C11_NoHandsResetsTracker ==
    /\ (ingestHands # <<>> /\ ingestHands[Len(ingestHands)] = 0)
            => /\ lastSnapshot = createIdleSnapshot(lastSnapshot.t)
               /\ lastIndexTipX = NULL
    /\ (Len(ingestHands) = 2 /\ ingestHands[1] = 0 /\ ActedOn("one_finger"))
            => lastSnapshot.yaw = 0

\* C18: the mode of the snapshot is the current mode of the state machine.
C18_SnapshotModeIsMachineMode == lastSnapshot.mode = currentMode

\* C20: within one uninterrupted run of ingests that report two_fingers,
\* voiceListenToggle is emitted at most once.
C20_OneToggleForAHeldGesture == runToggles <= 1

(***************************************************************************)
(* Further claims about HandGestureControlsV2 (SpecMapper)                 *)
(***************************************************************************)
\* C17: the distance applyZoom sets lies within [controls.minDistance,
\* controls.maxDistance], and a camera that starts within these limits stays
\* within them over every sequence of apply() calls.
C17_DistanceWithinLimits ==
    /\ applyZoomed # -1 => minDistance <= applyZoomed /\ applyZoomed <= maxDistance
    /\ minDistance <= camera.radius /\ camera.radius <= maxDistance

\* a zoom out from 49 whose factor would carry the camera beyond maxDistance:
\* it stops at maxDistance
C17_ZoomOutStopsAtMax ==
    /\ ApplyAccepted
    /\ applyArg.snapshot.mode = "Zoom"
    /\ applyArg.snapshot.pinchDelta < 0
    /\ (applyBefore.radius * MAX_ZOOM_SCALE_PER_FRAME) \div UNIT_SCALE > maxDistance
    /\ applyBefore.radius < maxDistance
    /\ applyZoomed = maxDistance
    /\ camera.radius = maxDistance

(***************************************************************************)
(* Claims about read() (SpecReader)                                        *)
(***************************************************************************)
\* C16: read() changes no field of the engine or of its recognizer and returns
\* the current snapshot, and a snapshot object a consumer holds keeps the
\* fields it had when read() returned it over every later ingest.
C16_ReadIsPureAndSnapshotsKeep ==
    [][/\ engOp' = "read"
            => UNCHANGED <<engVars, recVars>> /\ held'.obj = lastSnapshot
       /\ held'.isSet => held'.obj = held'.atRead]_vars

\* a consumer that read the Zoom snapshot of an open palm and still holds it
\* after a no-hands ingest replaced the current snapshot
C16_HoldsAnOldSnapshot ==
    /\ engOp = "ingest"
    /\ held.isSet /\ ~held.isCurrent
    /\ held.obj.mode = "Zoom"
    /\ lastSnapshot.mode = "Idle" /\ lastSnapshot.hands = 0

(***************************************************************************)
(* Claims about the page (SpecPage)                                        *)
(***************************************************************************)
\* C19: once the landmark source has stopped delivering frames, the apply()
\* calls of the render frames leave the camera where it is, whatever the last
\* snapshot was.
C19_IdleAfterStreamStops == applyAfterStop => camera = applyBefore

(***************************************************************************)
(* Claims about OneEuroFilter (SpecFilter)                                 *)
(***************************************************************************)
\* C12: a filter(x, t) call on an initialized filter with t at or before its
\* stored timestamp returns the previous filtered value, whatever x is, and
\* leaves x_prev, dx_prev and t_prev as they were.
C12_NonAdvancingCallHoldsValue ==
    \A ch \in fltCall.chs :
        (fltCall.before[ch].initialized /\ fltCall.t <= fltCall.before[ch].t_prev)
            => /\ fltCall.out[ch] = fltCall.before[ch].x_prev
               /\ fltCall.after[ch] = fltCall.before[ch]

\* filterPinch(0.8, 100) on the filter that holds a smoothed value other than
\* 0.8 from timestamp 200
C12_EarlierTimestampAfterSmoothing ==
    /\ fltCall.chs = {"pinch"}
    /\ fltCall.before["pinch"].initialized
    /\ fltCall.before["pinch"].t_prev = 200
    /\ fltCall.before["pinch"].dx_prev # 0
    /\ fltCall.t = 100
    /\ fltCall.x["pinch"] = 800
    /\ fltCall.out["pinch"] # 800

\* C13: the first filter(x, t) call on a filter after its construction or
\* after reset() returns x.
C13_FirstCallReturnsInput ==
    \A ch \in fltCall.chs :
        ~fltCall.before[ch].initialized => fltCall.out[ch] = fltCall.x[ch]

\* filterOrientation at timestamp 100, an earlier timestamp than the filters
\* held before the reset() that cleared them
C13_FirstCallAfterReset ==
    /\ fltCall.chs = OrientationChannels
    /\ fltCall.resetFresh = OrientationChannels
    /\ fltCall.t = 100
    /\ fltCall.x["yaw"] = 500
    /\ fltCall.out["yaw"] = 500 /\ fltCall.out["pitch"] = 200
    /\ fltCall.out["roll"] = -100

C15_NoHandCalibrationChangesNothing ==
    calibCall.hands = 0 => ~calibCall.result /\ calibCall.unchanged

\* calibrateNeutral([]) as the last operation, refused with a calibration set
\* earlier, the pinch filter holding a value, the state machine in Zoom and
\* a Zoom snapshot
C15_RefusedWithStateToLose ==
    /\ engOp = "calibrate"
    /\ calibCall.hands = 0 /\ ~calibCall.result
    /\ calibration.handBaseline = 150
    /\ filters["pinch"].initialized
    /\ currentMode = "Zoom"
    /\ lastSnapshot.mode = "Zoom"

\* C21: a read() made by a listener of voiceListenToggle during the emit of an
\* ingest returns the snapshot of that ingest.
C21_ListenerReadsTheNewSnapshot ==
    listenerSaw # <<>> => listenerSaw[1] = lastSnapshot

\* the gesture classifyGesture gives for a count of extended fingers
GestureOfCount(n) ==
    IF n = 0 THEN "closed_fist"
    ELSE IF n = 1 THEN "one_finger"
    ELSE IF n = 2 THEN "two_fingers"
    ELSE IF n = 5 THEN "open_palm"
    ELSE "unknown"

\* C26: the raw gesture of a frame, the one pushed on the history, follows from
\* the extended-finger count of the primary hand: 0 closed_fist, 1 one_finger,
\* 2 two_fingers, 5 open_palm, 3 and 4 unknown.
C26_RawGestureFollowsFingerCount ==
    (engOp = "ingest" /\ lastSnapshot.hands >= 1)
        => gestureHistory[Len(gestureHistory)]
              = GestureOfCount(lastFingerGesture.fingerCount)

\* a frame with four fingers extended after a frame with an open palm: raw
\* gesture unknown
C26_FourFingersAreUnknown ==
    /\ engOp = "ingest" /\ lastSnapshot.hands = 1
    /\ lastFingerGesture.fingerCount = 4
    /\ Len(gestureHistory) = 2
    /\ gestureHistory[1] = "open_palm"
    /\ gestureHistory[2] = "unknown"

\* C30: every snapshot read() can return has pinchDelta in {-0.8, 0, 0.8},
\* non-zero exactly in mode Zoom; yaw within [-pi, pi] and non-zero only in mode
\* Orbit; pitch and roll 0; quality within [0, 1]; and with hands = 0 it has
\* mode Idle and quality 0.
C30_SnapshotWellFormed ==
    /\ lastSnapshot.pinchDelta \in {-8, 0, 8}
    /\ lastSnapshot.pinchDelta # 0 <=> lastSnapshot.mode = "Zoom"
    /\ -MAX_YAW_RATE <= lastSnapshot.yaw /\ lastSnapshot.yaw <= MAX_YAW_RATE
    /\ lastSnapshot.yaw # 0 => lastSnapshot.mode = "Orbit"
    /\ lastSnapshot.pitch = 0 /\ lastSnapshot.roll = 0
    /\ 0 <= lastSnapshot.quality.num
    /\ lastSnapshot.quality.num <= lastSnapshot.quality.den
    /\ lastSnapshot.quality.den > 0
    /\ lastSnapshot.hands = 0
            => lastSnapshot.mode = "Idle" /\ lastSnapshot.quality.num = 0

\* two one_finger frames with the same timestamp and the fingertip at 0.40 and
\* 0.45: the yaw of the second is the cap pi
C30_DuplicateTimestampAtTheCap ==
    /\ ActedOn("one_finger")
    /\ Len(ingestHands) = 2 /\ ingestHands[1] = 1
    /\ lastTimestampMs = lastSnapshot.t
    /\ lastIndexTipX = 45
    /\ lastSnapshot.yaw = MAX_YAW_RATE
    /\ lastSnapshot.mode = "Orbit"

(***************************************************************************)
(* Further claims about the GestureRecognizer (SpecRecognizer)             *)
(***************************************************************************)
\* C28: a result of recognizeFingerGestures with confidence above 0.5 names the
\* most frequent gesture of the history, and its confidence is the frequency
\* of the gesture it names.
C28_ActedGestureIsTheMajority ==
    (recResult.isHandVisible /\ IsConfident(recResult.confidence))
        => /\ recResult.gesture = MostCommon(gestureHistory)
           /\ recResult.confidence
                 = Conf(Freq(gestureHistory, recResult.gesture), Len(gestureHistory))

(***************************************************************************)
(* Further claims about the GestureStateMachine (SpecSM)                   *)
(***************************************************************************)
\* C25: the candidate mode of an update() is Zoom when pinch is above 0.4,
\* whatever palmActive is; Orbit when pinch is not above 0.4 and palmActive is
\* set; Idle otherwise.
C25_CandidatePriority ==
    smOp = "update"
        => /\ smArg.pinch > 40 => candMode = "Zoom"
           /\ (smArg.pinch <= 40 /\ smArg.palmActive) => candMode = "Orbit"
           /\ (smArg.pinch <= 40 /\ ~smArg.palmActive) => candMode = "Idle"

\* update(0.9, true, dt) and update(0.4, true, dt): Zoom with the palm active,
\* Orbit at the threshold
C25_ZoomOverOrbit ==
    /\ smOp = "update"
    /\ smArg = [pinch |-> 90, palmActive |-> TRUE]
    /\ candMode = "Zoom"
    /\ currentMode = "Zoom"

\* C29: an update() commits the transition to its candidate when the candidate
\* differed from the current mode on every update() of a span whose dt sum to
\* the required delay (80 ms from Idle, 120 ms otherwise) and the previous
\* committed transition, if there was one, is at least 100 ms back.
C29_CommitsAfterRequiredDelay ==
    (/\ smOp = "update"
     /\ candMode # smBefore
     /\ diffSpan >= requiredDelay(smBefore)
     /\ (smGap = -1 \/ smGap >= MIN_MODE_DURATION))
        => currentMode = candMode

(***************************************************************************)
(* Claims about the slide rotation (SpecSlide)                             *)
(***************************************************************************)
\* 2.0 * (x2 - x1) / (dt / 1000) clamped to +-pi, x in 1e-5, dt in microseconds
ClaimedYaw(x1, x2, dt) ==
    Clamp((20000 * (x2 - x1)) \div dt, -MAX_YAW_RATE, MAX_YAW_RATE)

\* C22 as stated: after two consecutive one_finger ingests at t1 < t2 with tip
\* x1, x2 the snapshot has mode Orbit and
\* yaw = clamp(2.0 * (x2 - x1) / ((t2 - t1) / 1000), -pi, pi).
C22_YawIsScaledTipVelocity ==
    Len(slideCalls) >= 2 =>
        LET c1 == slideCalls[Len(slideCalls) - 1]
            c2 == slideCalls[Len(slideCalls)]
        IN  c1[2] < c2[2]
                => /\ slideSnap.mode = "Orbit"
                   /\ slideSnap.yaw = ClaimedYaw(c1[1], c2[1], c2[2] - c1[2])

\* C22 amended: the formula holds with the time difference taken as at least
\* one millisecond, so it is the claimed one whenever t2 - t1 >= 1 ms.
C22_YawIsScaledTipVelocityFromOneMs ==
    Len(slideCalls) >= 2 =>
        LET c1 == slideCalls[Len(slideCalls) - 1]
            c2 == slideCalls[Len(slideCalls)]
        IN  c1[2] < c2[2]
                => /\ slideSnap.mode = "Orbit"
                   /\ slideSnap.yaw
                         = ClaimedYaw(c1[1], c2[1], Max(1000, c2[2] - c1[2]))

\* x from 0.40 to 0.45 over 100 ms gives yaw 1.0
C22_TipFiveHundredthsInATenthOfASecond ==
    /\ slideCalls = <<(<<40000, 0>>), (<<45000, 100000>>)>>
    /\ slideSnap = [mode |-> "Orbit", yaw |-> 1000]

(***************************************************************************)
(* Claims about two engines given the same first hand (SpecTwin)           *)
(***************************************************************************)
Interpretation(snapshot) ==
    [mode |-> snapshot.mode, pinch |-> snapshot.pinch, pinchDelta |-> snapshot.pinchDelta,
     yaw |-> snapshot.yaw, quality |-> snapshot.quality]

\* C23: two ingest sequences that are the same but for the landmarks of the
\* second hand give the same snapshots (mode, pinch, pinchDelta, yaw, quality)
\* and the same toggle emissions, and the snapshot's hands field is the number
\* of hands of the frame.
C23_SecondHandIsIgnored ==
    /\ Interpretation(twin.eng.lastSnapshot) = Interpretation(lastSnapshot)
    /\ twin.emitted = engEmitted
    /\ engOp = "ingest"
            => /\ lastSnapshot.hands = ingestHands[Len(ingestHands)]
               /\ twin.eng.lastSnapshot.hands = lastSnapshot.hands

\* two hands, the second one different in the two sequences, the first one
\* sliding
C23_TwoHandsSliding ==
    /\ engOp = "ingest"
    /\ twin.differed
    /\ lastSnapshot.hands = 2
    /\ lastSnapshot.mode = "Orbit"
    /\ lastSnapshot.yaw # 0

(***************************************************************************)
(* Claims about the CalibrationData (SpecCalData)                          *)
(***************************************************************************)
\* C24: the engine's calibration changes only in a calibrateNeutral() that
\* returns true or in a setCalibration(): ingest, read, a refused
\* calibrateNeutral, the passage of time, and a write to an object got from
\* getCalibration() or passed to setCalibration() leave it as it is.
C24_CalibrationHasOneWriter ==
    [][calibration' # calibration
         => \/ engOp' = "setCalibration"
            \/ engOp' = "calibrate" /\ calibCall'.result]_vars

\* the caller has written to the object it passed to setCalibration()
C24_WroteToTheObjectPassedIn ==
    /\ engOp = "mutate"
    /\ calExt.from = "set"
    /\ calExt.obj.handBaseline = 200
    /\ calibration.handBaseline = 120

(***************************************************************************)
(* Claims about the pinch latch (SpecPinch)                                *)
(***************************************************************************)
\* what a frame with a median may do to the latch
LatchFollowsHysteresis ==
    /\ (~pinchCall.before /\ lastPinchState) => pinchCall.median > 70
    /\ (pinchCall.before /\ ~lastPinchState) => pinchCall.median < 25
    /\ (25 <= pinchCall.median /\ pinchCall.median <= 70)
            => lastPinchState = pinchCall.before

C31_NoHandsKeepHistory ==
    [][~recResult'.isHandVisible
         => /\ recResult' = [gesture |-> "unknown", fingerCount |-> 0,
                             confidence |-> Conf(0, 1), isHandVisible |-> FALSE]
            /\ gestureHistory' = gestureHistory
            /\ lastStableGesture' = lastStableGesture]_vars

\* a call without hands after a stable open palm
C31_HandGoneAfterStablePalm ==
    /\ ~recResult.isHandVisible
    /\ lastStableGesture = "open_palm"
    /\ Len(gestureHistory) = 3

\* C32: the gesture history holds at most 8 entries: the raw classifications
\* of the most recent frames with a hand, in the order they came.
C32_HistoryIsTheLastEightFrames ==
    /\ Len(gestureHistory) <= 8
    /\ gestureHistory = LastN(rawLog, 8)

\* the ninth frame has pushed the first one out
C32_OldestEvicted ==
    /\ Len(rawLog) = 9
    /\ rawLog[1] = "closed_fist"
    /\ rawLog[2] = "open_palm"
    /\ gestureHistory = Tail(rawLog)

(***************************************************************************)
(* Further claims about HandGestureControlsV2 (SpecMapper)                 *)
(***************************************************************************)
\* C33: with the distance inside [minDistance, maxDistance] an apply() in Zoom
\* mode with pinchDelta > 0 never increases the distance and one with
\* pinchDelta < 0 never decreases it; with pinchDelta 0.8, zoomGain 0.8 and
\* dt 0.016 the new distance is the old one divided by 1.0102.
C33_FistZoomsInPalmZoomsOut ==
    (/\ applyUpdated
     /\ applyArg.snapshot.mode = "Zoom"
     /\ minDistance <= applyBefore.radius /\ applyBefore.radius <= maxDistance)
        => /\ applyArg.snapshot.pinchDelta > 0 => camera.radius <= applyBefore.radius
           /\ applyArg.snapshot.pinchDelta < 0 => camera.radius >= applyBefore.radius
           \* old / new is 1.0102 to four decimals, the new distance a
           \* multiple of 0.01, unless the limit stopped it
           /\ (/\ applyArg.snapshot.pinchDelta = 8 /\ applyArg.dt = 16 /\ zoomGain = 8
               /\ camera.radius > minDistance)
                => /\ camera.radius * 101015 <= applyBefore.radius * 100000
                   /\ (camera.radius + 1) * 101025 > applyBefore.radius * 100000

\* a closed fist for one 60 Hz frame at distance 20 and the default gain
C33_FistForOneFrame ==
    /\ applyUpdated
    /\ applyArg = [snapshot |-> [mode |-> "Zoom", pinchDelta |-> 8, yaw |-> 0, pitch |-> 0],
                   dt |-> 16]
    /\ zoomGain = 8
    /\ applyBefore.radius = 2000
    /\ camera.radius = 1979

C36_EmitCallsTheListenersAtStart ==
    busLast.op = "emit" => busLast.called = busLast.atStart

\* the thrower first, then the listener that removes the last one, which is
\* called all the same and subscribes another
C36_ThrowAndUnsubscribeDuringDispatch ==
    /\ busLast.op = "emit"
    /\ busLast.event = "voiceListenToggle"
    /\ busLast.called = <<2, 3, 4>>
    /\ busListeners["voiceListenToggle"] = <<2, 3, 1>>

(***************************************************************************)
(* Claims about an ingest whose listener throws (SpecThrow)                *)
(***************************************************************************)
\* C37: an ingest that emits the toggle event returns to its caller and has
\* installed the snapshot of its frame, also when a listener of
\* voiceListenToggle throws.
C37_IngestSurvivesThrowingListener ==
    (engOp = "ingest" /\ engEmitted)
        => /\ ingestReturned
           /\ lastSnapshot.t = toggles[Len(toggles)]
           /\ lastSnapshot.hands = ingestHands[Len(ingestHands)]
           /\ lastSnapshot.quality = lastFingerGesture.confidence

\* the emit has called a listener that throws and the listeners after it
C37_ThrowerWasCalled ==
    /\ engOp = "ingest" /\ engEmitted
    /\ busLast.op = "emit"
    /\ busLast.called = <<2, 1>>
    /\ lastSnapshot.t = 1900

(***************************************************************************)
(* Claims about the voice controller (SpecVoice)                           *)
(***************************************************************************)
\* C38: at most one MediaRecorder of the controller is recording at any
\* time, whatever the order of toggle events, button clicks, completions of
\* getUserMedia and stop events.
C38_AtMostOneRecorderRecording ==
    Cardinality({id \in Recorders : recorderState[id] = "recording"}) <= 1

\* C39: every finished recording produces at most one voiceCommand event and
\* with it at most one change of the focus.
C39_OneCommandPerRecording ==
    \A id \in Recorders : Len(commandLog[id]) <= 1 /\ focusChanged[id] <= 1

====
